---------------------------- MODULE Spec2Model ----------------------------
(***************************************************************************)
(* Zoho Cliq channel plugin: the OAuth token manager (CliqTokenManager,    *)
(* withAutoRefresh), the conversation tracker (ConversationTracker) and    *)
(* the webhook pipeline (parseCliqPayload, processCliqWebhook,             *)
(* deliverCliqReply).                                                      *)
(*                                                                         *)
(* Scheduling is the single JavaScript event loop: the code between two    *)
(* awaits is one atomic action.  A task that awaits a settled promise is   *)
(* resumed in the same microtask drain, before any event-loop task (a      *)
(* network completion, a new HTTP request, a timer) runs: the guard        *)
(* MacroOK of the event-loop actions states this.                          *)
(***************************************************************************)
EXTENDS Integers, Sequences, FiniteSets, TLC

\* ------------------------------------------------------------------ bounds
NumTasks == 2
MaxExchanges == 2
MaxTicks == 2
MaxWebhooks == 2
MaxConversations == 1
StartTime == 1000000

\* --------------------------------------------------------- program numbers
\* outbound.ts:259  5 * 60 * 1000
RefreshMarginMs == 5 * 60 * 1000
\* auth.ts:66  data.expires_in || 3600
DefaultExpiresIn == 3600
\* outbound.ts:300  result.expiresIn * 1000
MsPerSec == 1000
\* conversation tracker: DEFAULT_TIMEOUT_MS, DEFAULT_MAX_CONVERSATIONS
DEFAULT_TIMEOUT_MS == 5 * 60 * 1000
DEFAULT_MAX_CONVERSATIONS == 1000

Tasks == 1..NumTasks

\* Clock steps (ms) of the token manager's runs: a fresh one-hour token is
\* exactly at the edge of its refresh margin after 3300000 ms, inside it
\* one second later.
TickDeltas == {3300000, 3301000}

VARIABLES
    now,            \* Date.now()
    ticks,          \* number of clock steps taken (bounded)
    accessToken,    \* CliqTokenManager.accessToken
    expiresAt,      \* CliqTokenManager.expiresAt (0 = unknown)
    refreshPromise, \* CliqTokenManager.refreshPromise (0 = null, else promise id)
    promises,       \* the promises returned by _doRefresh, by id, while some
                    \* task still holds them
    nStarted,       \* number of exchanges started so far (the last id)
    inFlight,       \* ids of the upstream refresh-token exchanges in flight
    cfgAccessToken, \* the configuration's accessToken, written by configUpdater
    lastAnswer,     \* what the upstream answered last and whether configUpdater
                    \* threw, while a task still waits on that exchange
    tasks,          \* the concurrently running async callers
    trackerInstance,   \* conversation tracker: the singleton exists
    conversations,     \* ConversationTracker.conversations, in insertion order
    timeoutMs,         \* ConversationTracker.config.timeoutMs
    maxConversations,  \* ConversationTracker.config.maxConversations
    lastOp,            \* the tracker call made last, with what it returned
                       \* and the keys it deleted
    held,              \* the value a caller got from getActiveConversation
                       \* and still holds, seen through its reference
    account,           \* the webhook target's account configuration
    nWebhooks,         \* number of webhook requests handled so far
    lastEvent,         \* what processCliqWebhook did with the last payload
    parsed,            \* what parseCliqPayload returned for the last payload
    dispatched,        \* deliver contexts of the messages handed to the agent
    webhookTargets,    \* the registry: the targets registered under each path
    instance,          \* the token manager singleton exists (else null)
    response           \* the last HTTP request with the response it was given

tokenVars == <<accessToken, expiresAt, refreshPromise, promises, nStarted, inFlight,
               cfgAccessToken, lastAnswer>>
trackerVars == <<trackerInstance, conversations, timeoutMs, maxConversations, lastOp,
                 held>>
pipelineVars == <<account, nWebhooks, lastEvent, parsed, dispatched, webhookTargets,
                  instance, response>>
vars == <<now, ticks, accessToken, expiresAt, refreshPromise, promises, nStarted,
          inFlight, cfgAccessToken, lastAnswer, tasks, trackerInstance, conversations,
          timeoutMs, maxConversations, lastOp, held, account, nWebhooks, lastEvent,
          parsed, dispatched, webhookTargets, instance, response>>

\* ------------------------------------------------------------ auth.ts
\* An upstream answer to the refresh-token exchange: response.ok and the
\* JSON body; "" and 0 stand for an absent field.
Responses ==
    { [ok |-> TRUE,  error |-> "", access_token |-> "tA", expires_in |-> 60],
      [ok |-> TRUE,  error |-> "", access_token |-> "tB", expires_in |-> 0],
      [ok |-> TRUE,  error |-> "invalid_code", access_token |-> "", expires_in |-> 0],
      [ok |-> FALSE, error |-> "", access_token |-> "", expires_in |-> 0] }

refreshAccessToken(resp) ==
    IF ~resp.ok \/ resp.error # ""
    THEN [accessToken |-> "", expiresIn |-> 0,
          error |-> IF resp.error # "" THEN resp.error ELSE "HTTP"]
    ELSE [accessToken |-> resp.access_token,
          expiresIn |-> IF resp.expires_in # 0 THEN resp.expires_in ELSE DefaultExpiresIn,
          error |-> ""]

\* ------------------------------------------------------- error messages
\* An Error's message is a sequence of text pieces; String.includes is
\* decided piece by piece from the substring facts of the pieces used.
SubstringFacts ==
    { <<"Cliq API unauthorized (token may be expired): ", "unauthorized">>,
      <<"401", "401">>,
      <<"CT_401", "401">>,
      <<"Unauthorized", "Unauthorized">>,
      <<"mention", "mention">>,
      <<"onmention", "mention">>,
      <<"CT_9-B1", "-B">>,
      <<"CT_1-B2", "-B">>,
      <<"Cliq chat not found: ", "not found">>,
      <<"Cliq channel not found: ", "not found">>,
      <<"Cliq user not found: ", "not found">>,
      <<"Cliq API forbidden - bot may not have access to channel: ", "forbidden">> }

includes(msg, needle) ==
    \E i \in 1..Len(msg) : <<msg[i], needle>> \in SubstringFacts

StatusText(status) ==
    CASE status = 401 -> "401"
      [] status = 403 -> "403"
      [] status = 404 -> "404"
      [] OTHER -> "500"

\* sendCliqChatMessage: "ok", or the message of the Error it throws
sendCliqChatMessage(chatId, status, errorText) ==
    IF status = 200 THEN <<"ok">>
    ELSE IF status = 401
         THEN <<"Cliq API unauthorized (token may be expired): ", errorText>>
    ELSE IF status = 404
         THEN <<"Cliq chat not found: ", chatId>>
    ELSE <<"Cliq API error: ", StatusText(status), " - ", errorText>>

Sent == <<"ok">>

\* withAutoRefresh's test of the caught error
IsUnauthorizedError(msg) ==
    includes(msg, "401") \/ includes(msg, "unauthorized") \/ includes(msg, "Unauthorized")

\* ------------------------------------------------------------ tasks
NoOutcome == [kind |-> "none", val |-> <<>>]
Value(v) == [kind |-> "value", val |-> v]
Error(m) == [kind |-> "error", val |-> m]

IdleTask ==
    [op |-> "none", pc |-> "idle", awaiting |-> 0, initiator |-> FALSE,
     started |-> 0, fnCalls |-> 0, huCalls |-> 0, fnToken |-> "",
     firstStatus |-> 0, lastRes |-> <<>>, ctx |-> <<>>, post |-> <<>>,
     outcome |-> NoOutcome]

\* a task suspended on a promise that is already settled: a pending microtask
Resumable(t) ==
    /\ tasks[t].pc = "awaitRefresh"
    /\ promises[tasks[t].awaiting].state \in {"fulfilled", "rejected"}

\* the microtask queue is empty: the event loop may run its next task
MacroOK == \A t \in Tasks : ~Resumable(t)

\* ------------------------------------------- CliqTokenManager (outbound.ts)
\* getToken's proactive-expiry test
ExpiringSoon == expiresAt # 0 /\ now > expiresAt - RefreshMarginMs

\* the promise of a _doRefresh call whose exchange is in flight
NewPromise == [state |-> "pending", value |-> "", error |-> ""]
NoPromise == [state |-> "none", value |-> "", error |-> ""]

\* _doRefresh() up to await fetch: the exchange is sent; refresh() stores
\* the promise and suspends on it
startRefresh(t, rec) ==
    /\ nStarted < MaxExchanges
    /\ nStarted' = nStarted + 1
    /\ promises' = [promises EXCEPT ![nStarted + 1] = NewPromise]
    /\ inFlight' = inFlight \cup {nStarted + 1}
    /\ refreshPromise' = nStarted + 1
    /\ tasks' = [tasks EXCEPT ![t] =
                   [rec EXCEPT !.pc = "awaitRefresh", !.awaiting = nStarted + 1,
                               !.initiator = TRUE, !.started = @ + 1]]

\* refresh() without the in-flight guard: every call starts an exchange
refresh_NoDedup(t, rec) == startRefresh(t, rec)

\* refresh() up to its first suspension: join the in-flight promise, or call
\* _doRefresh and store its promise.
refresh(t, rec) ==
    IF refreshPromise # 0
    THEN /\ tasks' = [tasks EXCEPT ![t] =
                        [rec EXCEPT !.pc = "awaitRefresh", !.awaiting = refreshPromise,
                                    !.initiator = FALSE]]
         /\ UNCHANGED <<refreshPromise, promises, nStarted, inFlight>>
    ELSE startRefresh(t, rec)

\* a caller invokes refresh()
CallRefresh(t) ==
    /\ tasks[t].pc = "idle"
    /\ refresh(t, [IdleTask EXCEPT !.op = "refresh"])
    /\ UNCHANGED <<now, ticks, accessToken, expiresAt, cfgAccessToken, lastAnswer>>
    /\ UNCHANGED <<trackerVars, pipelineVars>>

\* handleUnauthorized() that skips the refresh while the expiry is far away
handleUnauthorized_Proactive(t, rec) ==
    IF ExpiringSoon
    THEN refresh(t, [rec EXCEPT !.huCalls = @ + 1])
    ELSE /\ tasks' = [tasks EXCEPT ![t] =
                        [rec EXCEPT !.pc = "idle", !.huCalls = @ + 1,
                                    !.outcome = [kind |-> "value", val |-> <<accessToken>>]]]
         /\ UNCHANGED <<refreshPromise, promises, nStarted, inFlight>>

\* handleUnauthorized(): refresh(), whatever the expiry
handleUnauthorized(t, rec) == refresh(t, [rec EXCEPT !.huCalls = @ + 1])

CallHandleUnauthorized(t) ==
    /\ tasks[t].pc = "idle"
    /\ handleUnauthorized(t, [IdleTask EXCEPT !.op = "handleUnauthorized"])
    /\ UNCHANGED <<now, ticks, accessToken, expiresAt, cfgAccessToken, lastAnswer>>
    /\ UNCHANGED <<trackerVars, pipelineVars>>

\* getToken() that takes an unset expiry for one long past
getToken_RefreshesWhenUnset(t, rec, returned) ==
    IF now > expiresAt - RefreshMarginMs
    THEN refresh(t, rec)
    ELSE /\ tasks' = [tasks EXCEPT ![t] = returned]
         /\ UNCHANGED <<refreshPromise, promises, nStarted, inFlight>>

\* getToken() that waits for a refresh in flight before it returns
getToken_JoinsInFlight(t, rec, returned) ==
    IF ExpiringSoon \/ refreshPromise # 0
    THEN refresh(t, rec)
    ELSE /\ tasks' = [tasks EXCEPT ![t] = returned]
         /\ UNCHANGED <<refreshPromise, promises, nStarted, inFlight>>

\* getToken() up to its first suspension, or to its return of accessToken
\* (returned is the caller's state once it holds that token)
getToken(t, rec, returned) ==
    IF ExpiringSoon
    THEN refresh(t, rec)
    ELSE /\ tasks' = [tasks EXCEPT ![t] = returned]
         /\ UNCHANGED <<refreshPromise, promises, nStarted, inFlight>>

CallGetToken(t) ==
    /\ tasks[t].pc = "idle"
    /\ LET rec == [IdleTask EXCEPT !.op = "getToken"]
       IN getToken(t, rec, [rec EXCEPT !.outcome = Value(<<accessToken>>)])
    /\ UNCHANGED <<now, ticks, accessToken, expiresAt, cfgAccessToken, lastAnswer>>
    /\ UNCHANGED <<trackerVars, pipelineVars>>

\* fn(token) is called: it runs until its network call answers
runFn(rec, tok) ==
    [rec EXCEPT !.pc = "awaitFn", !.fnCalls = @ + 1, !.fnToken = tok]

\* withAutoRefresh(fn): getToken, then fn(token)
CallWithAutoRefresh(t) ==
    /\ tasks[t].pc = "idle"
    /\ LET rec == [IdleTask EXCEPT !.op = "withAutoRefresh"]
       IN getToken(t, rec, runFn(rec, accessToken))
    /\ UNCHANGED <<now, ticks, accessToken, expiresAt, cfgAccessToken, lastAnswer>>
    /\ UNCHANGED <<trackerVars, pipelineVars>>

\* _doRefresh that stores the result before looking at result.error
doRefresh_StoresOnError(id, result, updaterThrows) ==
    /\ accessToken' = result.accessToken
    /\ expiresAt' = now + result.expiresIn * MsPerSec
    /\ cfgAccessToken' = cfgAccessToken
    /\ promises' = [promises EXCEPT ![id].state = IF result.error # "" THEN "rejected"
                                                  ELSE "fulfilled",
                                    ![id].error = result.error,
                                    ![id].value = result.accessToken]

\* _doRefresh that calls configUpdater outside try/catch (as auth.ts TokenManager)
doRefresh_UpdaterPropagates(id, result, updaterThrows) ==
    IF result.error # ""
    THEN /\ promises' = [promises EXCEPT ![id].state = "rejected",
                                         ![id].error = result.error]
         /\ UNCHANGED <<accessToken, expiresAt, cfgAccessToken>>
    ELSE /\ accessToken' = result.accessToken
         /\ expiresAt' = now + result.expiresIn * MsPerSec
         /\ cfgAccessToken' = IF updaterThrows THEN cfgAccessToken ELSE result.accessToken
         /\ promises' = [promises EXCEPT ![id].state = IF updaterThrows THEN "rejected"
                                                        ELSE "fulfilled",
                                         ![id].error = IF updaterThrows THEN "updater" ELSE "",
                                         ![id].value = result.accessToken]

\* _doRefresh after refreshAccessToken returned: the error is thrown, or the
\* token and expiry are stored and configUpdater is called inside try/catch.
doRefresh(id, result, updaterThrows) ==
    IF result.error # ""
    THEN /\ promises' = [promises EXCEPT ![id].state = "rejected",
                                         ![id].error = result.error]
         /\ UNCHANGED <<accessToken, expiresAt, cfgAccessToken>>
    ELSE /\ accessToken' = result.accessToken
         /\ expiresAt' = now + result.expiresIn * MsPerSec
         /\ cfgAccessToken' = IF updaterThrows THEN cfgAccessToken ELSE result.accessToken
         /\ promises' = [promises EXCEPT ![id].state = "fulfilled",
                                         ![id].value = result.accessToken]

\* the upstream answers an exchange (an event-loop task)
ExchangeComplete(id, resp, updaterThrows) ==
    /\ MacroOK
    /\ id \in inFlight
    /\ inFlight' = inFlight \ {id}
    /\ (refreshAccessToken(resp).error # "" => ~updaterThrows)
    /\ lastAnswer' = [id |-> id, answer |-> refreshAccessToken(resp),
                      updaterThrew |-> updaterThrows]
    /\ doRefresh(id, refreshAccessToken(resp), updaterThrows)
    /\ UNCHANGED <<now, ticks, refreshPromise, nStarted, tasks>>
    /\ UNCHANGED <<trackerVars, pipelineVars>>

\* ---------------------------------------- deliverCliqReply (part_001), posting
\* a target is the prefix and the id it was built from
startsWith(target, prefix) == target[1] = prefix

\* the endpoint choice that sends every chat: target to the chat endpoint
selectEndpoint_ChatById(ctx, botId) ==
    IF startsWith(ctx.target, "chat:")
    THEN [fn |-> "sendCliqChatMessage", id |-> ctx.target[2], replyTo |-> ""]
    ELSE IF startsWith(ctx.target, "channel:")
    THEN IF botId # ""
         THEN [fn |-> "postBotMessage", id |-> ctx.target[2],
               replyTo |-> ctx.replyToMessageId]
         ELSE [fn |-> "sendCliqChannelMessage", id |-> ctx.target[2], replyTo |-> ""]
    ELSE [fn |-> "sendCliqUserMessage", id |-> ctx.target[2], replyTo |-> ""]

\* the posting function deliverCliqReply picks for a deliver context, the
\* id it posts to and the replyTo it passes
selectEndpoint(ctx, botId) ==
    IF startsWith(ctx.target, "chat:")
    THEN LET chatId == ctx.target[2]
             isLikelyChannel == ctx.channelId # "" /\ ~includes(<<chatId>>, "-B")
         IN IF isLikelyChannel /\ botId # "" /\ ctx.channelUniqueName # ""
            THEN [fn |-> "postBotMessage", id |-> ctx.channelUniqueName,
                  replyTo |-> ctx.replyToMessageId]
            ELSE IF botId # "" /\ ctx.userId # ""
                 THEN [fn |-> "sendBotDmMessage", id |-> ctx.userId, replyTo |-> ""]
                 ELSE [fn |-> "sendCliqChatMessage", id |-> chatId, replyTo |-> ""]
    ELSE IF startsWith(ctx.target, "channel:")
    THEN IF botId # ""
         THEN [fn |-> "postBotMessage", id |-> ctx.target[2],
               replyTo |-> ctx.replyToMessageId]
         ELSE [fn |-> "sendCliqChannelMessage", id |-> ctx.target[2], replyTo |-> ""]
    ELSE IF startsWith(ctx.target, "user:")
    THEN [fn |-> "sendCliqUserMessage", id |-> ctx.target[2], replyTo |-> ""]
    ELSE IF botId # ""
         THEN [fn |-> "postBotMessage", id |-> ctx.target[1],
               replyTo |-> ctx.replyToMessageId]
         ELSE [fn |-> "sendCliqChannelMessage", id |-> ctx.target[1], replyTo |-> ""]

\* deliverCliqReply once it holds the token: nothing is posted without a
\* token or without text, else the posting call is sent
deliverPost(rec, token) ==
    IF token = "" \/ rec.ctx.text = ""
    THEN [rec EXCEPT !.pc = "idle", !.outcome = Value(<<"skipped">>)]
    ELSE [rec EXCEPT !.pc = "awaitPost", !.fnCalls = @ + 1, !.fnToken = token,
                     !.post = selectEndpoint(rec.ctx, rec.ctx.account.botId)]

\* the caller's continuation after the awaited refresh promise settled
afterRefresh(rec, p) ==
    LET r == [rec EXCEPT !.awaiting = 0, !.initiator = FALSE] IN
    CASE rec.op \in {"refresh", "handleUnauthorized"} ->
           [r EXCEPT !.pc = "idle",
                     !.outcome = IF p.state = "rejected" THEN Error(<<p.error>>)
                                 ELSE Value(<<p.value>>)]
      [] rec.op = "getToken" ->
           [r EXCEPT !.pc = "idle",
                     !.outcome = IF p.state = "rejected" THEN Error(<<p.error>>)
                                 ELSE Value(<<accessToken>>)]
      [] rec.op = "withAutoRefresh" ->
           IF p.state = "rejected"
           THEN [r EXCEPT !.pc = "idle", !.outcome = Error(<<p.error>>)]
           ELSE IF rec.huCalls = 0 THEN runFn(r, accessToken)
           ELSE runFn(r, p.value)
      [] rec.op = "deliver" ->
           IF p.state = "rejected"
           THEN [r EXCEPT !.pc = "idle", !.outcome = Error(<<p.error>>)]
           ELSE deliverPost(r, accessToken)

\* no other task is suspended on the promise task t awaits
LastWaiter(t) ==
    \A u \in Tasks \ {t} :
        ~(tasks[u].pc = "awaitRefresh" /\ tasks[u].awaiting = tasks[t].awaiting)

\* refresh() without its finally block: the settled promise stays recorded
ResumeRefresh_KeepsGuard(t) ==
    /\ Resumable(t)
    /\ refreshPromise' = refreshPromise
    /\ tasks' = [tasks EXCEPT ![t] = afterRefresh(tasks[t], promises[tasks[t].awaiting])]
    /\ promises' = promises
    /\ lastAnswer' = lastAnswer
    /\ UNCHANGED <<now, ticks, accessToken, expiresAt, nStarted, inFlight, cfgAccessToken>>
    /\ UNCHANGED <<trackerVars, pipelineVars>>

\* refresh() resumes: the initiator's finally clears refreshPromise; a
\* settled promise that no task holds any more is dropped
ResumeRefresh(t) ==
    /\ Resumable(t)
    /\ refreshPromise' = IF tasks[t].initiator THEN 0 ELSE refreshPromise
    /\ tasks' = [tasks EXCEPT ![t] = afterRefresh(tasks[t], promises[tasks[t].awaiting])]
    /\ promises' = IF LastWaiter(t) THEN [promises EXCEPT ![tasks[t].awaiting] = NoPromise]
                   ELSE promises
    /\ lastAnswer' = IF LastWaiter(t) /\ lastAnswer # <<>> /\ lastAnswer.id = tasks[t].awaiting
                     THEN <<>> ELSE lastAnswer
    /\ UNCHANGED <<now, ticks, accessToken, expiresAt, nStarted, inFlight, cfgAccessToken>>
    /\ UNCHANGED <<trackerVars, pipelineVars>>

\* withAutoRefresh that goes through the catch block again for the retry
afterFn_RetryAgain(t, rec, res) ==
    IF res = Sent
    THEN /\ tasks' = [tasks EXCEPT ![t] = [rec EXCEPT !.pc = "idle", !.outcome = Value(res)]]
         /\ UNCHANGED <<refreshPromise, promises, nStarted, inFlight>>
    ELSE IF rec.fnCalls <= 2 /\ IsUnauthorizedError(res)
    THEN handleUnauthorized(t, rec)
    ELSE /\ tasks' = [tasks EXCEPT ![t] = [rec EXCEPT !.pc = "idle", !.outcome = Error(res)]]
         /\ UNCHANGED <<refreshPromise, promises, nStarted, inFlight>>

\* withAutoRefresh after fn(token) settled: only the first run is inside try
afterFn(t, rec, res) ==
    IF res = Sent
    THEN /\ tasks' = [tasks EXCEPT ![t] = [rec EXCEPT !.pc = "idle", !.outcome = Value(res)]]
         /\ UNCHANGED <<refreshPromise, promises, nStarted, inFlight>>
    ELSE IF rec.fnCalls = 1 /\ IsUnauthorizedError(res)
    THEN handleUnauthorized(t, rec)
    ELSE /\ tasks' = [tasks EXCEPT ![t] = [rec EXCEPT !.pc = "idle", !.outcome = Error(res)]]
         /\ UNCHANGED <<refreshPromise, promises, nStarted, inFlight>>

FnStatuses == {200, 401, 404}
FnChatIds == {"CT_1"}

\* the posting call made by fn answers (an event-loop task)
FnComplete(t, chatId, status) ==
    /\ MacroOK
    /\ tasks[t].pc = "awaitFn"
    /\ tasks[t].op = "withAutoRefresh"
    /\ LET res == sendCliqChatMessage(chatId, status, "body")
           rec == [tasks[t] EXCEPT !.lastRes = res, !.fnToken = "",
                                   !.firstStatus = IF @ = 0 THEN status ELSE @]
       IN afterFn(t, rec, res)
    /\ UNCHANGED <<now, ticks, accessToken, expiresAt, cfgAccessToken, lastAnswer>>
    /\ UNCHANGED <<trackerVars, pipelineVars>>

\* updateToken(newToken, expiresIn?)
updateToken(newToken, expiresIn) ==
    /\ MacroOK
    /\ accessToken' = newToken
    /\ expiresAt' = IF expiresIn # 0 THEN now + expiresIn * MsPerSec ELSE expiresAt
    /\ UNCHANGED <<now, ticks, refreshPromise, promises, nStarted, inFlight,
                   cfgAccessToken, lastAnswer, tasks>>
    /\ UNCHANGED <<trackerVars, pipelineVars>>

\* time passes
Tick(d) ==
    /\ MacroOK
    /\ ticks < MaxTicks
    /\ now' = now + d
    /\ ticks' = ticks + 1
    /\ UNCHANGED <<tokenVars, tasks, trackerVars, pipelineVars>>

\* ------------------------------------------ ConversationTracker (part_003)
\* null / undefined
NoEntry == <<>>

\* makeKey: `cliq:${channelId}:${userId}`
makeKey(channelId, userId) == "cliq:" \o channelId \o ":" \o userId

\* Map.has / Map.get on the insertion-ordered table
IndexOf(convs, key) ==
    IF \E i \in 1..Len(convs) : convs[i].key = key
    THEN CHOOSE i \in 1..Len(convs) : convs[i].key = key
    ELSE 0

MapGet(convs, key) ==
    IF IndexOf(convs, key) = 0 THEN NoEntry ELSE convs[IndexOf(convs, key)]

\* Map.set: an existing key keeps its place, a new key goes last
MapSet(convs, key, e) ==
    IF IndexOf(convs, key) = 0 THEN Append(convs, e)
    ELSE [convs EXCEPT ![IndexOf(convs, key)] = e]

\* Map.delete
MapDelete(convs, key) == SelectSeq(convs, LAMBDA e : e.key # key)

\* Math.max(state.lastMentionAt, state.lastResponseAt)
lastActivity(e) ==
    IF e.lastMentionAt >= e.lastResponseAt THEN e.lastMentionAt ELSE e.lastResponseAt

\* findOldest that takes the last entry, in insertion order, of least activity
findOldest_LastOfTies(convs) ==
    IF Len(convs) = 0 THEN ""
    ELSE LET i == CHOOSE i \in 1..Len(convs) :
                     /\ \A j \in 1..Len(convs) : lastActivity(convs[i]) <= lastActivity(convs[j])
                     /\ \A j \in (i + 1)..Len(convs) : lastActivity(convs[j]) > lastActivity(convs[i])
         IN convs[i].key

\* findOldest that takes the entry inserted first, whatever its activity
findOldest_First(convs) ==
    IF Len(convs) = 0 THEN "" ELSE convs[1].key

\* findOldest: the first entry, in insertion order, of least last activity
findOldest(convs) ==
    IF Len(convs) = 0 THEN ""
    ELSE LET i == CHOOSE i \in 1..Len(convs) :
                     /\ \A j \in 1..Len(convs) : lastActivity(convs[i]) <= lastActivity(convs[j])
                     /\ \A j \in 1..(i - 1) : lastActivity(convs[j]) > lastActivity(convs[i])
         IN convs[i].key

\* recordMention without the eviction at capacity
recordMention_NoEviction(convs, cap, t, channelId, userId, sessionKey, topic) ==
    LET key == makeKey(channelId, userId)
        existing == MapGet(convs, key)
        e == [key |-> key,
              lastMentionAt |-> t,
              lastResponseAt |-> IF existing # NoEntry THEN existing.lastResponseAt ELSE t,
              sessionKey |-> sessionKey,
              topic |-> IF topic # "" THEN topic
                        ELSE IF existing # NoEntry THEN existing.topic ELSE ""]
    IN MapSet(convs, key, e)

\* recordMention that keeps the time of the first mention of an existing entry
recordMention_KeepsFirst(convs, cap, t, channelId, userId, sessionKey, topic) ==
    LET key == makeKey(channelId, userId)
        existing == MapGet(convs, key)
        e == [key |-> key,
              lastMentionAt |-> IF existing # NoEntry THEN existing.lastMentionAt ELSE t,
              lastResponseAt |-> IF existing # NoEntry THEN existing.lastResponseAt ELSE t,
              sessionKey |-> sessionKey,
              topic |-> IF topic # "" THEN topic
                        ELSE IF existing # NoEntry THEN existing.topic ELSE ""]
        set == MapSet(convs, key, e)
    IN IF Len(set) > cap THEN MapDelete(set, findOldest(set)) ELSE set

\* recordMention that starts every entry afresh, forgetting the last response
recordMention_ResetsResponse(convs, cap, t, channelId, userId, sessionKey, topic) ==
    LET key == makeKey(channelId, userId)
        e == [key |-> key, lastMentionAt |-> t, lastResponseAt |-> t,
              sessionKey |-> sessionKey, topic |-> topic]
        set == MapSet(convs, key, e)
    IN IF Len(set) > cap THEN MapDelete(set, findOldest(set)) ELSE set

\* recordMention at time t ("" is an absent topic): the table afterwards
recordMention(convs, cap, t, channelId, userId, sessionKey, topic) ==
    LET key == makeKey(channelId, userId)
        existing == MapGet(convs, key)
        e == [key |-> key,
              lastMentionAt |-> t,
              lastResponseAt |-> IF existing # NoEntry THEN existing.lastResponseAt ELSE t,
              sessionKey |-> sessionKey,
              topic |-> IF topic # "" THEN topic
                        ELSE IF existing # NoEntry THEN existing.topic ELSE ""]
        set == MapSet(convs, key, e)
    IN IF Len(set) > cap THEN MapDelete(set, findOldest(set)) ELSE set

\* recordResponse that starts a conversation when there is none
recordResponse_Creates(convs, t, channelId, userId) ==
    LET key == makeKey(channelId, userId)
        existing == MapGet(convs, key)
    IN IF existing # NoEntry
       THEN MapSet(convs, key, [existing EXCEPT !.lastResponseAt = t])
       ELSE MapSet(convs, key, [key |-> key, lastMentionAt |-> t, lastResponseAt |-> t,
                                sessionKey |-> "", topic |-> ""])

\* recordResponse at time t: the table afterwards
recordResponse(convs, t, channelId, userId) ==
    LET key == makeKey(channelId, userId)
        existing == MapGet(convs, key)
    IN IF existing # NoEntry
       THEN MapSet(convs, key, [existing EXCEPT !.lastResponseAt = t])
       ELSE convs

\* getActiveConversation whose entry expires already when elapsed reaches the TTL
getActiveConversation_ExpiresAtTTL(convs, ttl, t, channelId, userId) ==
    LET key == makeKey(channelId, userId)
        state == MapGet(convs, key)
    IN IF state = NoEntry THEN [convs |-> convs, result |-> NoEntry]
       ELSE IF t - lastActivity(state) >= ttl
            THEN [convs |-> MapDelete(convs, key), result |-> NoEntry]
            ELSE [convs |-> convs, result |-> state]

\* getActiveConversation at time t: the table afterwards and the value returned
getActiveConversation(convs, ttl, t, channelId, userId) ==
    LET key == makeKey(channelId, userId)
        state == MapGet(convs, key)
    IN IF state = NoEntry THEN [convs |-> convs, result |-> NoEntry]
       ELSE IF t - lastActivity(state) > ttl
            THEN [convs |-> MapDelete(convs, key), result |-> NoEntry]
            ELSE [convs |-> convs, result |-> state]

\* getStats at time t: expired entries are swept, the rest is counted
getStats(convs, ttl, t) ==
    LET kept == SelectSeq(convs, LAMBDA e : ~(t - lastActivity(e) > ttl))
    IN [convs |-> kept, result |-> [active |-> Len(kept), timeout |-> ttl]]

\* getConversationTracker(config): the singleton's configuration afterwards
\* (cfgTimeoutMs = 0 is a call without a timeout)
getConversationTracker(cfgTimeoutMs) ==
    IF ~trackerInstance
    THEN [timeoutMs |-> IF cfgTimeoutMs # 0 THEN cfgTimeoutMs ELSE DEFAULT_TIMEOUT_MS,
          maxConversations |-> DEFAULT_MAX_CONVERSATIONS]
    ELSE [timeoutMs |-> IF cfgTimeoutMs # 0 THEN cfgTimeoutMs ELSE timeoutMs,
          maxConversations |-> maxConversations]

\* generateFollowUpHint: the "time ago" the hint text carries
generateFollowUpHint(state, t) ==
    LET elapsedSec == (t - state.lastResponseAt + 500) \div 1000
        elapsedMin == (elapsedSec + 30) \div 60
    IN IF elapsedMin > 0 THEN <<"minutes ago", elapsedMin>>
       ELSE <<"seconds ago", elapsedSec>>

\* ---- the tracker's methods called directly
TrackerChannels == {"c1"}
TrackerUsers == {"u1", "u2"}
TrackerSessionKeys == {"s1", "s2"}
TrackerTopics == {""}
MentionTopics == {"", "standup"}
TrackerTimeouts == {60000}
\* clock steps (ms): exactly the default TTL, and one second past it
TrackerDeltas == {300000, 301000}

\* the keys of the table
Keys(convs) == {convs[i].key : i \in 1..Len(convs)}

NoOp == [op |-> "none", key |-> "", result |-> NoEntry, deleted |-> {}]

\* no value held
NoHeld == [key |-> "", value |-> NoEntry, returned |-> NoEntry, live |-> FALSE]

\* The held value is the stored object itself (getActiveConversation returns
\* state): it stays that object until the table drops or replaces the
\* object under its key.
heldDropped(after, replacedKey) ==
    IF held.live /\ (held.key = replacedKey \/ held.key \notin Keys(after))
    THEN [held EXCEPT !.live = FALSE]
    ELSE held

RecordMention(channelId, userId, sessionKey, topic) ==
    /\ conversations' = recordMention(conversations, maxConversations, now,
                                      channelId, userId, sessionKey, topic)
    /\ lastOp' = [op |-> "recordMention", key |-> makeKey(channelId, userId),
                  result |-> NoEntry,
                  deleted |-> (Keys(conversations) \cup {makeKey(channelId, userId)})
                                 \ Keys(conversations')]
    /\ held' = heldDropped(conversations', makeKey(channelId, userId))
    /\ UNCHANGED <<now, ticks, tokenVars, tasks, trackerInstance, timeoutMs,
                   maxConversations, pipelineVars>>

RecordResponse(channelId, userId) ==
    /\ conversations' = recordResponse(conversations, now, channelId, userId)
    /\ lastOp' = [op |-> "recordResponse", key |-> makeKey(channelId, userId),
                  result |-> NoEntry, deleted |-> {}]
    \* existing.lastResponseAt = Date.now() writes into the stored object
    /\ held' = IF held.live /\ held.key = makeKey(channelId, userId)
               THEN [held EXCEPT !.value = MapGet(conversations', held.key)]
               ELSE held
    /\ UNCHANGED <<now, ticks, tokenVars, tasks, trackerInstance, timeoutMs,
                   maxConversations, pipelineVars>>

GetActiveConversation(channelId, userId) ==
    /\ LET r == getActiveConversation(conversations, timeoutMs, now, channelId, userId)
       IN /\ conversations' = r.convs
          /\ lastOp' = [op |-> "getActiveConversation", key |-> makeKey(channelId, userId),
                        result |-> r.result,
                        deleted |-> Keys(conversations) \ Keys(r.convs)]
          /\ held' = heldDropped(r.convs, "")
    /\ UNCHANGED <<now, ticks, tokenVars, tasks, trackerInstance, timeoutMs,
                   maxConversations, pipelineVars>>

\* a caller keeps what getActiveConversation returns: return state hands out
\* the object stored in the map
HoldActiveConversation(channelId, userId) ==
    /\ MacroOK
    /\ trackerInstance
    /\ LET r == getActiveConversation(conversations, timeoutMs, now, channelId, userId)
       IN /\ conversations' = r.convs
          /\ lastOp' = [op |-> "getActiveConversation", key |-> makeKey(channelId, userId),
                        result |-> r.result,
                        deleted |-> Keys(conversations) \ Keys(r.convs)]
          /\ held' = IF r.result # NoEntry
                     THEN [key |-> makeKey(channelId, userId), value |-> r.result,
                           returned |-> r.result, live |-> TRUE]
                     ELSE heldDropped(r.convs, "")
    /\ UNCHANGED <<now, ticks, tokenVars, tasks, trackerInstance, timeoutMs,
                   maxConversations, pipelineVars>>

\* the caller assigns to a field of the value it holds: while that value is
\* the stored object the assignment is to the stored entry
MutateHeld(sessionKey) ==
    /\ MacroOK
    /\ held.value # NoEntry
    /\ held.value.sessionKey # sessionKey
    /\ held' = [held EXCEPT !.value.sessionKey = sessionKey]
    /\ conversations' = IF held.live
                        THEN MapSet(conversations, held.key,
                                    [held.value EXCEPT !.sessionKey = sessionKey])
                        ELSE conversations
    /\ UNCHANGED <<now, ticks, tokenVars, tasks, trackerInstance, timeoutMs,
                   maxConversations, lastOp, pipelineVars>>

SetTimeoutMs(ms) ==
    /\ timeoutMs' = ms
    /\ lastOp' = [op |-> "setTimeoutMs", key |-> "", result |-> NoEntry, deleted |-> {}]
    /\ UNCHANGED <<now, ticks, tokenVars, tasks, trackerInstance, conversations,
                   maxConversations, held, pipelineVars>>

GetStats ==
    /\ LET r == getStats(conversations, timeoutMs, now)
       IN /\ conversations' = r.convs
          /\ lastOp' = [op |-> "getStats", key |-> "", result |-> r.result,
                        deleted |-> Keys(conversations) \ Keys(r.convs)]
          /\ held' = heldDropped(r.convs, "")
    /\ UNCHANGED <<now, ticks, tokenVars, tasks, trackerInstance, timeoutMs,
                   maxConversations, pipelineVars>>

\* --------------------------------------------- outbound.ts, posting calls
sendCliqChannelMessage(channelId, status, errorText) ==
    IF status = 200 THEN <<"ok">>
    ELSE IF status = 401
         THEN <<"Cliq API unauthorized (token may be expired): ", errorText>>
    ELSE IF status = 404
         THEN <<"Cliq channel not found: ", channelId>>
    ELSE IF status = 403
         THEN <<"Cliq API forbidden - bot may not have access to channel: ", channelId>>
    ELSE <<"Cliq API error: ", StatusText(status), " - ", errorText>>

sendCliqUserMessage(userId, status, errorText) ==
    IF status = 200 THEN <<"ok">>
    ELSE IF status = 401
         THEN <<"Cliq API unauthorized (token may be expired): ", errorText>>
    ELSE IF status = 404
         THEN <<"Cliq user not found: ", userId>>
    ELSE <<"Cliq API error: ", StatusText(status), " - ", errorText>>

postBotMessage(channelId, status, errorText) ==
    IF status = 200 THEN <<"ok">>
    ELSE <<"Cliq Bot API error: ", StatusText(status), " - ", errorText>>

\* sendBotDmMessage is imported by the monitor; its answer to a failed post
\* is an Error like postBotMessage's
sendBotDmMessage(userId, status, errorText) ==
    IF status = 200 THEN <<"ok">>
    ELSE <<"Cliq Bot API error: ", StatusText(status), " - ", errorText>>

\* what the posting call of a deliver task gives for an upstream status
postResult(post, status) ==
    CASE post.fn = "postBotMessage" -> postBotMessage(post.id, status, "body")
      [] post.fn = "sendBotDmMessage" -> sendBotDmMessage(post.id, status, "body")
      [] post.fn = "sendCliqChatMessage" -> sendCliqChatMessage(post.id, status, "body")
      [] post.fn = "sendCliqChannelMessage" -> sendCliqChannelMessage(post.id, status, "body")
      [] post.fn = "sendCliqUserMessage" -> sendCliqUserMessage(post.id, status, "body")

\* ----------------------------------------------- parseCliqPayload (part_001)
\* A webhook payload; "" is an absent field. messageType is typeof
\* payload.message; message is the string, or the text of the object.
BasePayload ==
    [messageType |-> "string", message |-> "hi", text |-> "", userId |-> "u1",
     userName |-> "Ann", email |-> "",
     handler |-> "", botMentioned |-> FALSE, chanId |-> "", chanUnique |-> "",
     chanName |-> "", chatId |-> "", chatType |-> "", chatChanUnique |-> "",
     chatTitle |-> "", messageId |-> ""]

ChannelPayload ==
    [BasePayload EXCEPT !.chatId = "CT_1", !.chatType = "channel",
                        !.chatChanUnique = "general"]

Payloads ==
    { \* a mention handler's payload from u1 in #general
      [ChannelPayload EXCEPT !.handler = "mention"],
      \* a message handler's payload from u1 in #general: no mention handler, no bot mentioned
      [ChannelPayload EXCEPT !.handler = "message", !.message = "thanks"],
      \* the bot is named in mentions; only a channel object, no chat
      [BasePayload EXCEPT !.userId = "u2", !.userName = "Bob", !.botMentioned = TRUE,
                          !.chanUnique = "general"],
      \* a direct message
      [BasePayload EXCEPT !.chatId = "CT_9-B1", !.chatType = "chat"],
      \* the bot's own post in #general
      [ChannelPayload EXCEPT !.handler = "mention", !.userId = "b1", !.userName = "Henry"],
      \* the bot's own direct message
      [BasePayload EXCEPT !.chatId = "CT_9-B1", !.chatType = "chat", !.userId = "b1",
                          !.userName = "Henry"],
      \* blank text
      [ChannelPayload EXCEPT !.handler = "mention", !.message = " "] }

\* String.trim on the texts used
trim(s) ==
    IF s = " " THEN ""
    ELSE IF s = " hi " THEN "hi"
    ELSE IF s = " u1 " THEN "u1"
    ELSE IF s = " Ann@X.com " THEN "Ann@X.com"
    ELSE s

\* title.replace(/^#\s*/, "") on the titles used
stripHash(s) ==
    IF s = "#Dev Team" THEN "Dev Team"
    ELSE IF s = "# Ops " THEN "Ops "
    ELSE s

NoMessage == <<>>

\* the text that takes payload.message as it is and never falls back
payloadText_Untrimmed(payload) ==
    IF payload.messageType \in {"string", "object"} THEN payload.message ELSE ""

\* let text: the message string or the message object's text, trimmed, with
\* the trimmed payload.text when that is empty
payloadText(payload) ==
    LET fromMessage == IF payload.messageType \in {"string", "object"}
                       THEN trim(payload.message) ELSE ""
    IN IF fromMessage # "" THEN fromMessage ELSE trim(payload.text)

\* the isChannel that takes every payload with a chat id for a channel message
isChannel_AnyChat(payload) ==
    payload.chatId # "" \/ payload.chanId # "" \/ payload.chanUnique # ""

\* const isChannel
isChannel(payload) ==
    LET hasChannelObject == payload.chanId # "" \/ payload.chanUnique # ""
        isChatChannel == payload.chatType = "channel"
    IN hasChannelObject \/ isChatChannel \/ payload.chatChanUnique # ""

\* the isMention that is true only when the payload names the bot
isMention_ExplicitOnly(payload) ==
    includes(<<payload.handler>>, "mention") \/ payload.botMentioned

\* const isMention
isMention(payload) ==
    \/ includes(<<payload.handler>>, "mention")
    \/ payload.botMentioned
    \/ isChannel(payload)

parseCliqPayload(payload) ==
    LET isChatChannel == payload.chatType = "channel"
        channelUniqueName == IF payload.chatChanUnique # "" THEN payload.chatChanUnique
                             ELSE IF payload.chanUnique # "" THEN payload.chanUnique
                             ELSE payload.chanName
        channelId == payload.chanId
        channelName == IF isChatChannel /\ payload.chanName = "" /\ payload.chatTitle # ""
                       THEN trim(stripHash(payload.chatTitle))
                       ELSE payload.chanName
    IN IF payloadText(payload) = "" \/ payload.userId = "" THEN NoMessage
       ELSE [chatId |-> IF payload.chatId # "" THEN payload.chatId ELSE channelId,
             senderId |-> payload.userId,
             senderName |-> IF payload.userName # "" THEN payload.userName
                            ELSE payload.userId,
             senderEmail |-> payload.email,
             text |-> payloadText(payload),
             messageId |-> IF payload.messageType = "object" /\ payload.messageId # ""
                           THEN payload.messageId ELSE "cliq-now",
             channelId |-> channelId,
             channelName |-> channelName,
             channelUniqueName |-> channelUniqueName,
             isChannel |-> isChannel(payload),
             isMention |-> isMention(payload)]

\* payloads of every shape parseCliqPayload distinguishes
ParseMessageTypes == {"string", "object", "undefined"}
ParseTexts == {"", " ", "hi", " hi "}
ParseUserIds == {"", "u1"}
ParseHandlers == {"", "message", "onmention"}

\* where the payload says the message was posted
ParseChats ==
    { \* nothing said
      BasePayload,
      \* a direct chat
      [BasePayload EXCEPT !.chatId = "CT_9-B1", !.chatType = "chat"],
      \* a direct chat with a title
      [BasePayload EXCEPT !.chatId = "CT_9-B1", !.chatType = "chat", !.chatTitle = "#Dev Team"],
      \* chat of type channel with channel_unique_name
      ChannelPayload,
      \* only a channel object with id and unique_name
      [BasePayload EXCEPT !.chanId = "O1", !.chanUnique = "general"],
      \* only a channel object with nothing but a name
      [BasePayload EXCEPT !.chanName = "General"],
      \* chat of type channel with a title and nothing else to name it
      [BasePayload EXCEPT !.chatId = "CT_2", !.chatType = "channel",
                          !.chatTitle = "#Dev Team"],
      [BasePayload EXCEPT !.chatId = "CT_3", !.chatType = "channel",
                          !.chatTitle = "# Ops "],
      \* chat of type channel with a title and a channel object with a name
      [BasePayload EXCEPT !.chatId = "CT_2", !.chatType = "channel",
                          !.chatTitle = "#Dev Team", !.chanName = "General"] }

\* payload.message: its type with its text; there is none when undefined
ParseMessages ==
    {mm \in ParseMessageTypes \X ParseTexts : mm[1] = "undefined" => mm[2] = ""}

ParsePayloads ==
    { [chat EXCEPT !.messageType = mm[1], !.message = mm[2], !.text = tx, !.userId = uid,
                   !.handler = h, !.botMentioned = bm] :
        chat \in ParseChats, mm \in ParseMessages,
        tx \in ParseTexts, uid \in ParseUserIds, h \in ParseHandlers, bm \in BOOLEAN }

\* const message = parseCliqPayload(payload), for the payload received
Parse ==
    /\ parsed.pending
    /\ parsed' = [payload |-> parsed.payload, message |-> parseCliqPayload(parsed.payload),
                  pending |-> FALSE]
    /\ UNCHANGED <<now, ticks, tokenVars, tasks, trackerVars, account, nWebhooks,
                   lastEvent, dispatched, webhookTargets, instance, response>>

\* the payload names the bot: a mention handler, or the bot among its mentions
ExplicitMention(payload) ==
    includes(<<payload.handler>>, "mention") \/ payload.botMentioned

\* --------------------------------------------- processCliqWebhook (part_001)
\* String.toLowerCase and the prefix-stripping replaces, on the entries used
toLowerCase(s) ==
    IF s = "U1" THEN "u1"
    ELSE IF s = "Cliq:u1" THEN "cliq:u1"
    ELSE IF s = "Ann@X.com" THEN "ann@x.com"
    ELSE s

\* normalized.replace(/^(cliq|zoho-cliq):/i, "")
stripCliqPrefix(s) ==
    IF s = "cliq:u1" THEN "u1"
    ELSE IF s = "zoho-cliq:u1" THEN "u1"
    ELSE s

\* normalized.replace(/^user:/i, "")
stripUserPrefix(s) == IF s = "user:u1" THEN "u1" ELSE s

\* isSenderAllowed that compares the entries as they are written
isSenderAllowed_Exact(senderId, senderEmail, allowFrom) ==
    \/ "*" \in allowFrom
    \/ \E entry \in allowFrom :
         /\ entry # ""
         /\ (entry = senderId \/ (senderEmail # "" /\ entry = senderEmail))

isSenderAllowed(senderId, senderEmail, allowFrom) ==
    \/ "*" \in allowFrom
    \/ \E entry \in allowFrom :
         LET normalized == toLowerCase(trim(entry)) IN
         /\ normalized # ""
         /\ \/ normalized = toLowerCase(senderId)
            \/ (toLowerCase(trim(senderEmail)) # ""
                  /\ normalized = toLowerCase(trim(senderEmail)))
            \/ stripCliqPrefix(normalized) = toLowerCase(senderId)
            \/ stripUserPrefix(normalized) = toLowerCase(senderId)

\* the self-message test that knows the bot by its name only
isSelfMessage_NameOnly(message, acct) ==
    message.senderName = acct.botName

\* message.senderName === account.botName || message.senderId === account.botId
isSelfMessage(message, acct) ==
    message.senderName = acct.botName \/ message.senderId = acct.botId

\* An account configuration; "" , 0 and "unset" are absent settings.
DefaultAccount ==
    [accountId |-> "default", webhookSecret |-> "",
     botId |-> "b1", botName |-> "Henry", requireMention |-> "unset",
     channels |-> {}, conversationTimeout |-> 0, dmPolicy |-> "",
     allowFrom |-> {}, refreshCreds |-> TRUE, accessToken |-> "t0"]

Accounts ==
    { DefaultAccount,
      [accountId |-> "default", webhookSecret |-> "",
       botId |-> "", botName |-> "", requireMention |-> "false",
       channels |-> {[name |-> "general", requireMention |-> "true"]},
       conversationTimeout |-> 60, dmPolicy |-> "allowlist",
       allowFrom |-> {"Cliq:u1"}, refreshCreds |-> FALSE, accessToken |-> "t0"],
      [accountId |-> "default", webhookSecret |-> "",
       botId |-> "b1", botName |-> "", requireMention |-> "true",
       channels |-> {}, conversationTimeout |-> 0, dmPolicy |-> "disabled",
       allowFrom |-> {}, refreshCreds |-> TRUE, accessToken |-> "t0"] }

\* account.channels?.[name]?.requireMention ("none": no such channel entry)
channelConfig(acct, name) ==
    IF \E c \in acct.channels : c.name = name
    THEN (CHOOSE c \in acct.channels : c.name = name).requireMention
    ELSE "none"

\* channelRequireMention ?? account.requireMention ?? true
requireMentionFor(acct, message) ==
    LET cc == IF message.isChannel /\ message.channelUniqueName # ""
              THEN IF channelConfig(acct, message.channelUniqueName) # "none"
                   THEN channelConfig(acct, message.channelUniqueName)
                   ELSE channelConfig(acct, message.chatId)
              ELSE "none"
    IN IF cc \in {"true", "false"} THEN cc = "true"
       ELSE IF acct.requireMention \in {"true", "false"} THEN acct.requireMention = "true"
       ELSE TRUE

\* core.channel.routing.resolveAgentRoute: the session key of a peer
resolveAgentRoute(kind, peerId) ==
    [sessionKey |-> "agent:main:cliq:" \o kind \o ":" \o peerId]

\* the (channelId, userId) the tracker is called with for a message
trackerChannelId(message) ==
    IF message.chatId # "" THEN message.chatId ELSE message.channelUniqueName

NoParsed == [payload |-> <<>>, message |-> <<>>, pending |-> FALSE]

NoEvent ==
    [payload |-> <<>>, kind |-> "none", isFollowUp |-> FALSE, hint |-> <<>>,
     sessionKey |-> ""]

\* processCliqWebhook for one payload at time t, up to the dispatch: what
\* happened, the tracker's table and configuration afterwards, the tracker
\* call made last, and the deliver context handed to the dispatcher
processCliqWebhook(payload, target, t) ==
    LET message == parseCliqPayload(payload)
        same == [kind |-> "unparsed", isFollowUp |-> FALSE, hint |-> <<>>,
                 sessionKey |-> "", made |-> trackerInstance, convs |-> conversations,
                 timeoutMs |-> timeoutMs, maxConversations |-> maxConversations,
                 op |-> lastOp, ctx |-> <<>>]
    IN
    IF message = NoMessage THEN same
    ELSE IF isSelfMessage(message, target)
    THEN [same EXCEPT !.kind = "self"]
    ELSE
    LET isGroup == message.isChannel
        conversationTimeoutMs ==
            IF target.conversationTimeout # 0
            THEN target.conversationTimeout * 1000 ELSE 5 * 60 * 1000
        tracker == getConversationTracker(conversationTimeoutMs)
        got == [same EXCEPT !.made = TRUE, !.timeoutMs = tracker.timeoutMs,
                            !.maxConversations = tracker.maxConversations]
        requireMention == requireMentionFor(target, message)
        lookup == isGroup /\ ~message.isMention /\ requireMention
        active == getActiveConversation(conversations, tracker.timeoutMs, t,
                                        trackerChannelId(message), message.senderId)
        looked == IF lookup
                  THEN [got EXCEPT !.convs = active.convs,
                                   !.op = [op |-> "getActiveConversation",
                                           key |-> makeKey(trackerChannelId(message),
                                                           message.senderId),
                                           result |-> active.result,
                                           deleted |-> Keys(conversations)
                                                          \ Keys(active.convs)]]
                  ELSE got
        isFollowUp == lookup /\ active.result # NoEntry
        dmPolicy == IF target.dmPolicy # "" THEN target.dmPolicy ELSE "open"
    IN
    IF lookup /\ active.result = NoEntry THEN [looked EXCEPT !.kind = "skipped"]
    ELSE IF ~isGroup /\ dmPolicy = "disabled" THEN [looked EXCEPT !.kind = "dmDropped"]
    ELSE IF /\ ~isGroup /\ dmPolicy # "open"
            /\ ~isSenderAllowed(message.senderId, message.senderEmail, target.allowFrom)
    THEN [looked EXCEPT !.kind = "dmDropped"]
    ELSE
    LET route == resolveAgentRoute(IF isGroup THEN "group" ELSE "dm",
                                   IF message.channelUniqueName # ""
                                   THEN message.channelUniqueName ELSE message.chatId)
        responseTarget ==
            IF message.chatId # "" THEN <<"chat:", message.chatId>>
            ELSE IF isGroup THEN <<"channel:", message.channelUniqueName>>
            ELSE <<"user:", message.senderId>>
        effectiveSessionKey ==
            IF isFollowUp /\ active.result.sessionKey # ""
            THEN active.result.sessionKey ELSE route.sessionKey
        recorded == message.isMention /\ isGroup
    IN [looked EXCEPT
          !.kind = "dispatched",
          !.isFollowUp = isFollowUp,
          !.hint = IF isFollowUp THEN generateFollowUpHint(active.result, t) ELSE <<>>,
          !.sessionKey = effectiveSessionKey,
          !.convs = IF recorded
                    THEN recordMention(looked.convs, tracker.maxConversations, t,
                                       trackerChannelId(message), message.senderId,
                                       effectiveSessionKey, "")
                    ELSE looked.convs,
          !.op = IF recorded
                 THEN [op |-> "recordMention",
                       key |-> makeKey(trackerChannelId(message), message.senderId),
                       result |-> NoEntry,
                       deleted |->
                          (Keys(looked.convs)
                             \cup {makeKey(trackerChannelId(message), message.senderId)})
                          \ Keys(recordMention(looked.convs, tracker.maxConversations, t,
                                               trackerChannelId(message), message.senderId,
                                               effectiveSessionKey, ""))]
                 ELSE looked.op,
          !.ctx = [account |-> target,
                   target |-> responseTarget,
                   channelId |-> trackerChannelId(message),
                   channelUniqueName |-> message.channelUniqueName,
                   userId |-> message.senderId,
                   replyToMessageId |-> message.messageId]]

\* the processing that hands the message to the agent first and leaves the
\* recording of the mention to a later step
processing_RecordsLater(payload, target) ==
    LET r == processCliqWebhook(payload, target, now)
    IN /\ nWebhooks' = nWebhooks + 1
       /\ trackerInstance' = r.made
       /\ conversations' = conversations
       /\ timeoutMs' = r.timeoutMs
       /\ maxConversations' = r.maxConversations
       /\ lastOp' = lastOp
       /\ held' = held
       /\ parsed' = [payload |-> payload, message |-> parseCliqPayload(payload),
                     pending |-> FALSE]
       /\ lastEvent' = [payload |-> payload, kind |-> r.kind,
                        isFollowUp |-> r.isFollowUp, hint |-> r.hint,
                        sessionKey |-> r.sessionKey]
       /\ dispatched' = IF r.kind = "dispatched" THEN dispatched \cup {r.ctx}
                        ELSE dispatched

\* processCliqWebhook(payload, target) called at the present time, up to its
\* first await (the dispatch): the state it leaves
processing(payload, target) ==
    LET r == processCliqWebhook(payload, target, now)
    IN /\ nWebhooks' = nWebhooks + 1
       /\ trackerInstance' = r.made
       /\ conversations' = r.convs
       /\ timeoutMs' = r.timeoutMs
       /\ maxConversations' = r.maxConversations
       /\ lastOp' = r.op
       /\ held' = heldDropped(r.convs, IF r.op.op = "recordMention" /\ r.kind = "dispatched"
                                       THEN r.op.key ELSE "")
       /\ parsed' = [payload |-> payload, message |-> parseCliqPayload(payload),
                     pending |-> FALSE]
       /\ lastEvent' = [payload |-> payload, kind |-> r.kind,
                        isFollowUp |-> r.isFollowUp, hint |-> r.hint,
                        sessionKey |-> r.sessionKey]
       /\ dispatched' = IF r.kind = "dispatched" THEN dispatched \cup {r.ctx}
                        ELSE dispatched

\* a webhook request arrives: processCliqWebhook runs to its dispatch
ProcessWebhook(payload) ==
    /\ MacroOK
    /\ nWebhooks < MaxWebhooks
    /\ processing(payload, account)
    /\ UNCHANGED <<now, ticks, tokenVars, tasks, account, webhookTargets, instance,
                   response>>

\* the dispatcher awaits each deliver call before it makes the next
DeliverTasks == {1}
ReplyTexts == {"reply", ""}
\* clock step (ms) between the pipeline's events
PipelineDeltas == {300000}
PostStatuses == {200, 401}

\* the dispatcher calls deliver: deliverCliqReply up to its posting call
CallDeliver(t, text) ==
    /\ tasks[t].pc = "idle"
    /\ \E ctx \in dispatched :
       LET rec == [IdleTask EXCEPT !.op = "deliver",
                                   !.ctx = [account |-> ctx.account,
                                            target |-> ctx.target,
                                            channelId |-> ctx.channelId,
                                            channelUniqueName |-> ctx.channelUniqueName,
                                            userId |-> ctx.userId,
                                            replyToMessageId |-> ctx.replyToMessageId,
                                            text |-> text]]
       IN IF instance
          THEN getToken(t, rec, deliverPost(rec, accessToken))
          ELSE /\ tasks' = [tasks EXCEPT ![t] =
                              deliverPost(rec, IF cfgAccessToken # "" THEN cfgAccessToken
                                               ELSE ctx.account.accessToken)]
               /\ UNCHANGED <<refreshPromise, promises, nStarted, inFlight>>
    /\ UNCHANGED <<now, ticks, accessToken, expiresAt, cfgAccessToken, lastAnswer>>
    /\ UNCHANGED <<trackerVars, pipelineVars>>

\* the completion that records the response under the channel's unique name
PostComplete_KeyedByName(t, status) ==
    /\ MacroOK
    /\ tasks[t].pc = "awaitPost"
    /\ LET rec == tasks[t]
           res == postResult(rec.post, status)
           done == [rec EXCEPT !.lastRes = res, !.fnToken = "",
                               !.firstStatus = IF @ = 0 THEN status ELSE @]
           tracked == res = Sent /\ rec.ctx.channelUniqueName # "" /\ rec.ctx.userId # ""
       IN /\ tasks' = [tasks EXCEPT ![t] =
                         [done EXCEPT !.pc = "idle",
                                      !.outcome = IF res = Sent THEN Value(res)
                                                  ELSE Error(res)]]
          /\ conversations' = IF tracked
                              THEN recordResponse(conversations, now, rec.ctx.channelUniqueName,
                                                  rec.ctx.userId)
                              ELSE conversations
          /\ lastOp' = IF tracked
                       THEN [op |-> "recordResponse",
                             key |-> makeKey(rec.ctx.channelUniqueName, rec.ctx.userId),
                             result |-> NoEntry, deleted |-> {}]
                       ELSE lastOp
          /\ held' = IF tracked /\ held.live
                        /\ held.key = makeKey(rec.ctx.channelUniqueName, rec.ctx.userId)
                     THEN [held EXCEPT !.value = MapGet(conversations', held.key)]
                     ELSE held
          /\ trackerInstance' = (trackerInstance \/ tracked)
          /\ timeoutMs' = IF tracked THEN getConversationTracker(0).timeoutMs ELSE timeoutMs
          /\ maxConversations' = IF tracked THEN getConversationTracker(0).maxConversations
                                 ELSE maxConversations
    /\ UNCHANGED <<now, ticks, tokenVars, pipelineVars>>

\* the completion that records the response whatever the post answered
PostComplete_RecordsAlways(t, status) ==
    /\ MacroOK
    /\ tasks[t].pc = "awaitPost"
    /\ LET rec == tasks[t]
           res == postResult(rec.post, status)
           done == [rec EXCEPT !.lastRes = res, !.fnToken = "",
                               !.firstStatus = IF @ = 0 THEN status ELSE @]
           tracked == rec.ctx.channelId # "" /\ rec.ctx.userId # ""
       IN /\ tasks' = [tasks EXCEPT ![t] =
                         [done EXCEPT !.pc = "idle",
                                      !.outcome = IF res = Sent THEN Value(res)
                                                  ELSE Error(res)]]
          /\ conversations' = IF tracked
                              THEN recordResponse(conversations, now, rec.ctx.channelId,
                                                  rec.ctx.userId)
                              ELSE conversations
          /\ lastOp' = IF tracked
                       THEN [op |-> "recordResponse",
                             key |-> makeKey(rec.ctx.channelId, rec.ctx.userId),
                             result |-> NoEntry, deleted |-> {}]
                       ELSE lastOp
          /\ held' = IF tracked /\ held.live
                        /\ held.key = makeKey(rec.ctx.channelId, rec.ctx.userId)
                     THEN [held EXCEPT !.value = MapGet(conversations', held.key)]
                     ELSE held
          /\ trackerInstance' = (trackerInstance \/ tracked)
          /\ timeoutMs' = IF tracked THEN getConversationTracker(0).timeoutMs ELSE timeoutMs
          /\ maxConversations' = IF tracked THEN getConversationTracker(0).maxConversations
                                 ELSE maxConversations
    /\ UNCHANGED <<now, ticks, tokenVars, pipelineVars>>

\* the posting call answers (an event-loop task): on success the response
\* is recorded in the tracker, a failure is logged and rethrown
PostComplete(t, status) ==
    /\ MacroOK
    /\ tasks[t].pc = "awaitPost"
    /\ LET rec == tasks[t]
           res == postResult(rec.post, status)
           done == [rec EXCEPT !.lastRes = res, !.fnToken = "",
                               !.firstStatus = IF @ = 0 THEN status ELSE @]
           tracked == res = Sent /\ rec.ctx.channelId # "" /\ rec.ctx.userId # ""
       IN /\ tasks' = [tasks EXCEPT ![t] =
                         [done EXCEPT !.pc = "idle",
                                      !.outcome = IF res = Sent THEN Value(res)
                                                  ELSE Error(res)]]
          /\ conversations' = IF tracked
                              THEN recordResponse(conversations, now, rec.ctx.channelId,
                                                  rec.ctx.userId)
                              ELSE conversations
          /\ lastOp' = IF tracked
                       THEN [op |-> "recordResponse",
                             key |-> makeKey(rec.ctx.channelId, rec.ctx.userId),
                             result |-> NoEntry, deleted |-> {}]
                       ELSE lastOp
          /\ held' = IF tracked /\ held.live
                        /\ held.key = makeKey(rec.ctx.channelId, rec.ctx.userId)
                     THEN [held EXCEPT !.value = MapGet(conversations', held.key)]
                     ELSE held
          /\ trackerInstance' = (trackerInstance \/ tracked)
          /\ timeoutMs' = IF tracked THEN getConversationTracker(0).timeoutMs ELSE timeoutMs
          /\ maxConversations' = IF tracked THEN getConversationTracker(0).maxConversations
                                 ELSE maxConversations
    /\ UNCHANGED <<now, ticks, tokenVars, pipelineVars>>

\* ------------------------------------------------------------ webhook registry
\* A request path is the sequence of its segments: "/webhooks/cliq/acme" is
\* <<"webhooks", "cliq", "acme">>, and a trailing slash leaves an empty last
\* segment.
DefaultWebhookPath == <<"webhooks", "cliq">>

\* const webhookTargets = new Map(): no path has a target
NoTargets == <<>>

\* no request answered yet (pending: a request has arrived and waits for
\* its handler)
NoResponse ==
    [request |-> <<>>, pending |-> FALSE, handled |-> FALSE, handler |-> "none", status |-> 0,
     allow |-> "", body |-> "", ended |-> 0, processed |-> FALSE, account |-> <<>>]

\* normalizeWebhookPath: the default path for an empty one, a trailing slash
\* dropped
normalizeWebhookPath(raw) ==
    IF raw = <<>> THEN DefaultWebhookPath
    ELSE IF Len(raw) > 1 /\ raw[Len(raw)] = "" THEN SubSeq(raw, 1, Len(raw) - 1)
    ELSE raw

\* path.startsWith("/webhooks/cliq"), on whole segments
pathStartsWith(path, prefix) ==
    Len(path) >= Len(prefix) /\ SubSeq(path, 1, Len(prefix)) = prefix

\* webhookTargets.get(key) ?? []
targetsAt(map, key) == IF key \in DOMAIN map THEN map[key] ELSE <<>>

\* registerCliqWebhookTarget: the target is appended to the list of its
\* normalized path
registerCliqWebhookTarget(map, target) ==
    LET key == normalizeWebhookPath(target.path)
        normalizedTarget == [target EXCEPT !.path = key]
    IN (key :> Append(targetsAt(map, key), normalizedTarget)) @@ map

\* const webhookPath = "/webhooks/cliq", whatever the account
startPath(acct) == DefaultWebhookPath

\* startCliqWebhookMonitor(account): with refresh credentials a new token
\* manager replaces the singleton, and the account is registered as a target
StartMonitor(acct) ==
    /\ MacroOK
    /\ \A t \in Tasks : tasks[t].pc = "idle"
    /\ refreshPromise = 0 /\ inFlight = {}
    /\ \A k \in DOMAIN webhookTargets : \A i \in 1..Len(webhookTargets[k]) :
          webhookTargets[k][i].account.accountId # acct.accountId
    /\ IF acct.refreshCreds
       THEN /\ instance' = TRUE
            /\ accessToken' = IF cfgAccessToken # "" THEN cfgAccessToken
                              ELSE acct.accessToken
            /\ expiresAt' = 0
       ELSE UNCHANGED <<instance, accessToken, expiresAt>>
    /\ webhookTargets' = registerCliqWebhookTarget(webhookTargets,
                            [account |-> acct, path |-> startPath(acct)])
    /\ UNCHANGED <<now, ticks, refreshPromise, promises, nStarted, inFlight,
                   cfgAccessToken, lastAnswer, tasks, trackerVars, account, nWebhooks,
                   lastEvent, parsed, dispatched, response>>

\* ------------------------------------------------------------ HTTP boundary
\* readJsonBody's limit: 1024 * 1024
MaxBodyBytes == 1048576

\* the reader without a size limit
readJsonBody_NoLimit(body, maxBytes) ==
    IF body.kind = "empty" THEN [ok |-> FALSE, error |-> "empty payload"]
    ELSE IF body.kind = "nonjson" THEN [ok |-> FALSE, error |-> "Unexpected token"]
    ELSE [ok |-> TRUE, error |-> "", kind |-> body.kind, value |-> body.value]

\* A request body: its size in bytes, what its text is ("empty": nothing but
\* white space, "nonjson": not JSON, else the kind of JSON value), and the
\* payload when it is an object.
\* readJsonBody(req, maxBytes)
readJsonBody(body, maxBytes) ==
    IF body.size > maxBytes THEN [ok |-> FALSE, error |-> "payload too large"]
    ELSE IF body.kind = "empty" THEN [ok |-> FALSE, error |-> "empty payload"]
    ELSE IF body.kind = "nonjson" THEN [ok |-> FALSE, error |-> "Unexpected token"]
    ELSE [ok |-> TRUE, error |-> "", kind |-> body.kind, value |-> body.value]

\* !payload || typeof payload !== "object" || Array.isArray(payload)
notAnObject(read) == read.kind # "object"

\* req.headers["x-cliq-webhook-secret"] || req.headers["x-webhook-secret"]
\*   || req.headers["authorization"]  ("" is an absent header)
providedSecret(headers) ==
    IF headers.xCliqWebhookSecret # "" THEN headers.xCliqWebhookSecret
    ELSE IF headers.xWebhookSecret # "" THEN headers.xWebhookSecret
    ELSE headers.authorization

\* `Bearer ${secret}`
Bearer(secret) == "Bearer " \o secret

\* the account handleCliqWebhookDirect builds from the runtime configuration
cliqCfg ==
    [DefaultAccount EXCEPT !.webhookSecret = "s0", !.dmPolicy = "open",
                           !.refreshCreds = FALSE]

directAccount == [cliqCfg EXCEPT !.accessToken = cfgAccessToken]

\* the responses of both handlers
methodNotAllowed(res) ==
    [res EXCEPT !.status = 405, !.allow = "POST", !.body = "Method Not Allowed",
                !.ended = @ + 1]
badBody(res, read) ==
    [res EXCEPT !.status = IF read.error = "payload too large" THEN 413 ELSE 400,
                !.body = read.error, !.ended = @ + 1]
invalidPayload(res) ==
    [res EXCEPT !.status = 400, !.body = "invalid payload", !.ended = @ + 1]
unauthorized(res) ==
    [res EXCEPT !.status = 401, !.body = "unauthorized", !.ended = @ + 1]
received(res, acct) ==
    [res EXCEPT !.status = 200, !.body = "{status:received}", !.ended = @ + 1,
                !.processed = TRUE, !.account = acct]

\* handleCliqWebhookDirect: the fallback when no target is registered
handleCliqWebhookDirect(req, res0) ==
    LET res == [res0 EXCEPT !.handler = "direct"]
        read == readJsonBody(req.body, MaxBodyBytes)
    IN IF req.method # "POST" THEN methodNotAllowed(res)
       ELSE IF ~read.ok THEN badBody(res, read)
       ELSE IF notAnObject(read) THEN invalidPayload(res)
       ELSE received(res, directAccount)

\* if (target.account.webhookSecret) { providedSecret !== secret &&
\*   providedSecret !== `Bearer ${secret}` }
secretMismatch(acct, headers) ==
    /\ acct.webhookSecret # ""
    /\ providedSecret(headers) # acct.webhookSecret
    /\ providedSecret(headers) # Bearer(acct.webhookSecret)

\* the handler that awaits the processing and reports a message that did
\* not parse
handleCliqWebhookWithTargets_AwaitsProcessing(req, res0, targets) ==
    LET res == [res0 EXCEPT !.handler = "targets"]
        read == readJsonBody(req.body, MaxBodyBytes)
        target == targets[1]
    IN IF req.method # "POST" THEN methodNotAllowed(res)
       ELSE IF ~read.ok THEN badBody(res, read)
       ELSE IF notAnObject(read) THEN invalidPayload(res)
       ELSE IF secretMismatch(target.account, req.headers) THEN unauthorized(res)
       ELSE IF parseCliqPayload(read.value) = NoMessage
       THEN [received(res, target.account) EXCEPT !.status = 500,
                                                  !.body = "processing failed"]
       ELSE received(res, target.account)

\* handleCliqWebhookWithTargets: the first target of the list is used
handleCliqWebhookWithTargets(req, res0, targets) ==
    LET res == [res0 EXCEPT !.handler = "targets"]
        read == readJsonBody(req.body, MaxBodyBytes)
        target == targets[1]
    IN IF req.method # "POST" THEN methodNotAllowed(res)
       ELSE IF ~read.ok THEN badBody(res, read)
       ELSE IF notAnObject(read) THEN invalidPayload(res)
       ELSE IF secretMismatch(target.account, req.headers) THEN unauthorized(res)
       ELSE received(res, target.account)

\* handleCliqWebhookRequest: the response given to a request under the
\* registry map; a path outside /webhooks/cliq is not handled
handleCliqWebhookRequest(req, map) ==
    LET res == [NoResponse EXCEPT !.request = req]
        exact == targetsAt(map, normalizeWebhookPath(req.path))
        targets == IF exact = <<>> THEN targetsAt(map, DefaultWebhookPath) ELSE exact
    IN IF ~pathStartsWith(req.path, DefaultWebhookPath) THEN res
       ELSE IF targets = <<>>
       THEN handleCliqWebhookDirect(req, [res EXCEPT !.handled = TRUE])
       ELSE handleCliqWebhookWithTargets(req, [res EXCEPT !.handled = TRUE], targets)

\* an HTTP request arrives, its body fully read: the handler answers, and
\* for an accepted request processCliqWebhook has run to its dispatch by then
HandleRequest(req) ==
    /\ MacroOK
    /\ nWebhooks < MaxWebhooks
    /\ LET res == handleCliqWebhookRequest(req, webhookTargets)
       IN /\ response' = res
          /\ IF res.processed
             THEN /\ processing(req.body.value, res.account)
                  /\ account' = res.account
             ELSE /\ nWebhooks' = nWebhooks + 1
                  /\ UNCHANGED <<trackerVars, account, lastEvent, parsed, dispatched>>
    /\ UNCHANGED <<now, ticks, tokenVars, tasks, webhookTargets, instance>>

\* the handler runs for the request that has arrived
HandlePending ==
    /\ response.pending
    /\ HandleRequest(response.request)

\* ------------------------------------------------------------ specification
InitToken ==
    /\ accessToken = "t0"
    /\ expiresAt = 0
    /\ refreshPromise = 0
    /\ promises = [id \in 1..MaxExchanges |-> NoPromise]
    /\ nStarted = 0
    /\ inFlight = {}
    /\ cfgAccessToken = "t0"
    /\ lastAnswer = <<>>
    /\ tasks = [t \in Tasks |-> IdleTask]

\* no tracker yet
InitTracker ==
    /\ trackerInstance = FALSE
    /\ conversations = <<>>
    /\ timeoutMs = DEFAULT_TIMEOUT_MS
    /\ maxConversations = DEFAULT_MAX_CONVERSATIONS
    /\ lastOp = NoOp
    /\ held = NoHeld

\* no webhook yet
InitPipeline ==
    /\ nWebhooks = 0
    /\ lastEvent = NoEvent
    /\ parsed = NoParsed
    /\ dispatched = {}
    /\ webhookTargets = NoTargets
    /\ instance = account.refreshCreds
    /\ response = NoResponse

Init ==
    /\ now = StartTime
    /\ ticks = 0
    /\ InitToken
    /\ InitTracker
    /\ account = DefaultAccount
    /\ InitPipeline

\* callers of getToken, refresh and handleUnauthorized, beside updateToken;
\* a short-lived token (expires_in 60) is inside the refresh margin at once
Next ==
    \/ \E t \in Tasks : CallGetToken(t)
    \/ \E t \in Tasks : CallRefresh(t)
    \/ \E t \in Tasks : CallHandleUnauthorized(t)
    \/ \E t \in Tasks : ResumeRefresh(t)
    \/ \E id \in 1..MaxExchanges, resp \in Responses, thr \in BOOLEAN :
          ExchangeComplete(id, resp, thr)
    \/ \E tok \in {"tU"}, e \in {0, 60} : updateToken(tok, e)

Spec == Init /\ [][Next]_vars

\* two callers of getToken, refresh and handleUnauthorized when every
\* upstream exchange is answered in the end and the microtask of every
\* settled promise is run
AnswerExchange ==
    \E id \in 1..MaxExchanges, resp \in Responses, thr \in BOOLEAN :
        ExchangeComplete(id, resp, thr)

SettleTasks == {1, 2}

NextSettle ==
    \/ \E t \in SettleTasks : CallGetToken(t)
    \/ \E t \in SettleTasks : CallRefresh(t)
    \/ \E t \in SettleTasks : CallHandleUnauthorized(t)
    \/ \E t \in SettleTasks : ResumeRefresh(t)
    \/ AnswerExchange
    \/ updateToken("tU", 60)

SpecSettle ==
    /\ Init /\ [][NextSettle]_vars
    /\ WF_vars(AnswerExchange)
    /\ \A t \in SettleTasks : WF_vars(ResumeRefresh(t))

\* two callers of getToken while tokens of the default lifetime are
\* refreshed, updateToken is called with and without a lifetime, and the
\* clock reaches and passes the refresh margin
ExpiryTasks == {1, 2}
ExpiryResponses == {resp \in Responses : resp.access_token # "tA"}
ExpiryLifetimes == {0, 60}

NextExpiry ==
    \/ \E t \in ExpiryTasks : CallGetToken(t)
    \/ \E t \in ExpiryTasks : ResumeRefresh(t)
    \/ \E id \in 1..MaxExchanges, resp \in ExpiryResponses :
          ExchangeComplete(id, resp, FALSE)
    \/ \E e \in ExpiryLifetimes : updateToken("tU", e)
    \/ \E d \in TickDeltas : Tick(d)

SpecExpiry == Init /\ [][NextExpiry]_vars

\* callers of withAutoRefresh, beside callers of handleUnauthorized; a
\* short-lived token (expires_in 60) puts getToken inside its refresh margin
NextRetry ==
    \/ \E t \in Tasks : CallWithAutoRefresh(t)
    \/ \E t \in Tasks : CallHandleUnauthorized(t)
    \/ \E t \in Tasks : ResumeRefresh(t)
    \/ \E id \in 1..MaxExchanges, resp \in Responses, thr \in BOOLEAN :
          ExchangeComplete(id, resp, thr)
    \/ \E t \in Tasks, c \in FnChatIds, s \in FnStatuses : FnComplete(t, c, s)

SpecRetry == Init /\ [][NextRetry]_vars

\* withAutoRefresh around a chat post that fails in every way, to chats whose
\* ids do and do not contain the digits 401
DetectChatIds == {"CT_1", "CT_401"}
DetectStatuses == {200, 401, 403, 404, 500}

\* one caller at a time
DetectTasks == {1}

NextDetect ==
    \/ \E t \in DetectTasks : CallWithAutoRefresh(t)
    \/ \E t \in Tasks : ResumeRefresh(t)
    \/ \E id \in 1..MaxExchanges, resp \in Responses, thr \in BOOLEAN :
          ExchangeComplete(id, resp, thr)
    \/ \E t \in Tasks, c \in DetectChatIds, s \in DetectStatuses : FnComplete(t, c, s)

SpecDetect == Init /\ [][NextDetect]_vars

\* a tracker constructed with a small capacity, its methods called directly
InitTrackerSpec ==
    /\ now = StartTime
    /\ ticks = 0
    /\ InitToken
    /\ trackerInstance = TRUE
    /\ conversations = <<>>
    /\ timeoutMs = DEFAULT_TIMEOUT_MS
    /\ maxConversations = MaxConversations
    /\ lastOp = NoOp
    /\ held = NoHeld
    /\ account = DefaultAccount
    /\ InitPipeline

NextTracker ==
    \/ \E c \in TrackerChannels, u \in TrackerUsers, k \in TrackerSessionKeys,
          tp \in TrackerTopics : RecordMention(c, u, k, tp)
    \/ \E c \in TrackerChannels, u \in TrackerUsers : RecordResponse(c, u)
    \/ \E c \in TrackerChannels, u \in TrackerUsers : GetActiveConversation(c, u)
    \/ \E ms \in TrackerTimeouts : SetTimeoutMs(ms)
    \/ GetStats
    \/ \E d \in TrackerDeltas : Tick(d)

SpecTracker == InitTrackerSpec /\ [][NextTracker]_vars

EvictDeltas == {301000}

\* mentions with and without a topic, and responses, as time passes
NextMention ==
    \/ \E c \in TrackerChannels, u \in TrackerUsers, k \in TrackerSessionKeys,
          tp \in MentionTopics : RecordMention(c, u, k, tp)
    \/ \E c \in TrackerChannels, u \in TrackerUsers : RecordResponse(c, u)
    \/ \E d \in EvictDeltas : Tick(d)

SpecMention == InitTrackerSpec /\ [][NextMention]_vars

\* a caller that keeps the value getActiveConversation returned while the
\* tracker goes on being used
HeldSessionKeys == {"s1", "x"}

NextAlias ==
    \/ \E c \in TrackerChannels, u \in TrackerUsers : RecordMention(c, u, "s1", "")
    \/ \E c \in TrackerChannels, u \in TrackerUsers : RecordResponse(c, u)
    \/ \E c \in TrackerChannels, u \in TrackerUsers : HoldActiveConversation(c, u)
    \/ \E sk \in HeldSessionKeys : MutateHeld(sk)
    \/ \E d \in EvictDeltas : Tick(d)

SpecAlias == InitTrackerSpec /\ [][NextAlias]_vars

\* channel messages under every setting of requireMention
PolicyRequireMentions == {"unset", "true", "false"}
PolicyChannels ==
    { {},
      {[name |-> "general", requireMention |-> "true"]},
      {[name |-> "general", requireMention |-> "false"]},
      {[name |-> "CT_1", requireMention |-> "false"]} }
PolicyAccounts ==
    { [DefaultAccount EXCEPT !.requireMention = rm, !.channels = ch] :
        rm \in PolicyRequireMentions, ch \in PolicyChannels }
PolicyPayloads ==
    { \* a mention handler's payload from u1 in #general
      [ChannelPayload EXCEPT !.handler = "mention"],
      \* a message handler's payload from u1 in #general, the bot not named
      [ChannelPayload EXCEPT !.handler = "message", !.message = "thanks"],
      \* the same in a channel chat that gives no unique name
      [BasePayload EXCEPT !.handler = "message", !.message = "thanks",
                          !.chatId = "CT_1", !.chatType = "channel"] }

InitPolicy ==
    /\ now = StartTime
    /\ ticks = 0
    /\ InitToken
    /\ InitTracker
    /\ account \in PolicyAccounts
    /\ InitPipeline

NextPolicy ==
    \/ \E p \in PolicyPayloads : ProcessWebhook(p)
    \/ \E d \in PipelineDeltas : Tick(d)

SpecPolicy == InitPolicy /\ [][NextPolicy]_vars

\* replies to messages of every origin, with and without a bot identity
RouteBotIds == {"b1", ""}
RouteAccounts ==
    { [DefaultAccount EXCEPT !.botId = b, !.dmPolicy = "open", !.refreshCreds = FALSE] :
        b \in RouteBotIds }
RoutePayloads ==
    { \* chat of type channel with channel_unique_name; message object with an id
      [ChannelPayload EXCEPT !.handler = "mention", !.messageType = "object",
                             !.messageId = "m7"],
      \* chat of type channel known by its title only
      [BasePayload EXCEPT !.chatId = "CT_2", !.chatType = "channel",
                          !.chatTitle = "#Dev Team"],
      \* a direct chat, its id carrying the DM marker
      [BasePayload EXCEPT !.message = "hello", !.userName = "Bob", !.chatId = "CT_1-B2"],
      \* only a channel object with unique_name, no chat
      [BasePayload EXCEPT !.botMentioned = TRUE, !.chanUnique = "general"],
      \* neither chat nor channel
      BasePayload }
RouteReplyTexts == {"reply"}
RouteStatuses == {200}

InitRoute ==
    /\ now = StartTime
    /\ ticks = 0
    /\ InitToken
    /\ InitTracker
    /\ account \in RouteAccounts
    /\ InitPipeline

NextRoute ==
    \/ \E p \in RoutePayloads : ProcessWebhook(p)
    \/ \E t \in DeliverTasks, text \in RouteReplyTexts : CallDeliver(t, text)
    \/ \E t \in DeliverTasks, st \in RouteStatuses : PostComplete(t, st)

SpecRoute == InitRoute /\ [][NextRoute]_vars

\* the same replies with the upstream answering every kind of status
PostFailureStatuses == {200, 401, 403, 404, 500}

NextPost ==
    \/ \E p \in RoutePayloads : ProcessWebhook(p)
    \/ \E t \in DeliverTasks, text \in RouteReplyTexts : CallDeliver(t, text)
    \/ \E t \in DeliverTasks, st \in PostFailureStatuses : PostComplete(t, st)

SpecPost == InitRoute /\ [][NextPost]_vars

\* two accounts behind one gateway; requests of every method, path, secret
\* header and body arrive before and after the accounts' monitors start
HttpAccounts ==
    { [DefaultAccount EXCEPT !.accountId = "acme", !.webhookSecret = "s1",
                             !.dmPolicy = "open", !.refreshCreds = FALSE,
                             !.accessToken = "tA"],
      [DefaultAccount EXCEPT !.accountId = "beta", !.webhookSecret = "",
                             !.botId = "b2", !.botName = "Beta",
                             !.dmPolicy = "disabled", !.refreshCreds = FALSE,
                             !.accessToken = "tB"] }
HttpMethods == {"POST", "GET"}
HttpPaths ==
    { DefaultWebhookPath, <<"webhooks", "cliq", "">>, <<"webhooks", "cliq", "acme">>,
      <<"webhooks", "cliq", "beta">>, <<"hooks", "other">> }
NoHeaders == [xCliqWebhookSecret |-> "", xWebhookSecret |-> "", authorization |-> ""]
HttpHeaders ==
    { NoHeaders,
      [NoHeaders EXCEPT !.xCliqWebhookSecret = "s1"],
      [NoHeaders EXCEPT !.xWebhookSecret = "s0"],
      [NoHeaders EXCEPT !.authorization = Bearer("s1")],
      [NoHeaders EXCEPT !.xCliqWebhookSecret = "wrong"] }
HttpPayloads ==
    { \* a direct message
      [BasePayload EXCEPT !.message = "hello", !.userName = "Bob", !.chatId = "CT_1-B2"],
      \* a channel mention
      [ChannelPayload EXCEPT !.handler = "mention"],
      \* a payload without text or sender, which does not parse
      [BasePayload EXCEPT !.message = "", !.text = "", !.userId = ""] }
HttpBodies ==
    { [size |-> 20, kind |-> "object", value |-> p] : p \in HttpPayloads }
    \cup { [size |-> sz, kind |-> "object", value |-> BasePayload] :
              sz \in {MaxBodyBytes, MaxBodyBytes + 1} }
    \cup { [size |-> 2, kind |-> k, value |-> <<>>] :
              k \in {"empty", "nonjson", "array", "null"} }
HttpRequests ==
    [method : HttpMethods, path : HttpPaths, headers : HttpHeaders, body : HttpBodies]
HttpStatuses == {200, 500}

InitHttp ==
    /\ now = StartTime
    /\ ticks = 0
    /\ InitToken
    /\ InitTracker
    /\ account = directAccount
    /\ nWebhooks = 0
    /\ lastEvent = NoEvent
    /\ parsed = NoParsed
    /\ dispatched = {}
    /\ webhookTargets = NoTargets
    /\ instance = FALSE
    /\ response \in {[NoResponse EXCEPT !.request = req, !.pending = TRUE] :
                        req \in HttpRequests}

NextHttp ==
    \/ \E a \in HttpAccounts : StartMonitor(a)
    \/ HandlePending

SpecHttp == InitHttp /\ [][NextHttp]_vars

\* accepted requests and what becomes of them afterwards: the message is
\* dropped, does not parse, or is answered by a reply whose post succeeds or
\* fails
AckRequests ==
    { req \in HttpRequests :
        /\ req.method = "POST"
        /\ req.path \in {DefaultWebhookPath, <<"webhooks", "cliq", "beta">>}
        /\ req.headers \in {NoHeaders, [NoHeaders EXCEPT !.xCliqWebhookSecret = "s1"],
                            [NoHeaders EXCEPT !.xWebhookSecret = "s0"]}
        /\ req.body.size = 20 }

NextAck ==
    \/ \E a \in HttpAccounts : StartMonitor(a)
    \/ \E req \in AckRequests : HandleRequest(req)
    \/ \E t \in DeliverTasks, text \in RouteReplyTexts : CallDeliver(t, text)
    \/ \E t \in DeliverTasks, st \in HttpStatuses : PostComplete(t, st)

InitAck ==
    /\ now = StartTime
    /\ ticks = 0
    /\ InitToken
    /\ InitTracker
    /\ account = directAccount
    /\ InitPipeline

SpecAck == InitAck /\ [][NextAck]_vars

\* two accounts with a token each and the refresh credentials of the one
\* configuration, which has no access token of its own (README, Multi-Account
\* Setup): monitors start, direct messages arrive, replies are posted
TokenAccounts ==
    { [DefaultAccount EXCEPT !.accountId = "acme", !.dmPolicy = "open",
                             !.accessToken = "tA"],
      [DefaultAccount EXCEPT !.accountId = "beta", !.dmPolicy = "open",
                             !.botId = "b2", !.botName = "Beta",
                             !.accessToken = "tB"] }
TokenRequests ==
    { req \in HttpRequests :
        /\ req.method = "POST"
        /\ req.path \in {DefaultWebhookPath, <<"webhooks", "cliq", "beta">>}
        /\ req.headers = NoHeaders
        /\ req.body.size = 20
        /\ req.body.value.chatId \in {"CT_1", "CT_1-B2"} }

InitAccounts ==
    /\ now = StartTime
    /\ ticks = 0
    /\ accessToken = ""
    /\ expiresAt = 0
    /\ refreshPromise = 0
    /\ promises = [id \in 1..MaxExchanges |-> NoPromise]
    /\ nStarted = 0
    /\ inFlight = {}
    /\ cfgAccessToken = ""
    /\ lastAnswer = <<>>
    /\ tasks = [t \in Tasks |-> IdleTask]
    /\ InitTracker
    /\ account = directAccount
    /\ InitPipeline

NextAccounts ==
    \/ \E a \in TokenAccounts : StartMonitor(a)
    \/ \E req \in TokenRequests : HandleRequest(req)
    \/ \E t \in DeliverTasks, text \in RouteReplyTexts : CallDeliver(t, text)
    \/ \E t \in DeliverTasks, st \in RouteStatuses : PostComplete(t, st)

SpecAccounts == InitAccounts /\ [][NextAccounts]_vars

\* replies to channel mentions that are posted, fail, have no text, or find
\* no access token (a request handled before any monitor started), while
\* time passes
NextRecord ==
    \/ \E a \in TokenAccounts : StartMonitor(a)
    \/ \E req \in TokenRequests : HandleRequest(req)
    \/ \E t \in DeliverTasks, text \in ReplyTexts : CallDeliver(t, text)
    \/ \E t \in DeliverTasks, st \in HttpStatuses : PostComplete(t, st)
    \/ \E d \in PipelineDeltas : Tick(d)

SpecRecord == InitAccounts /\ [][NextRecord]_vars

\* direct messages under every DM policy and allow-list
DmPolicies == {"", "open", "disabled", "allowlist", "pairing"}
DmAllowLists ==
    { {}, {"*"}, {"u2", "*"}, {"u1"}, {"U1"}, {" u1 "}, {"Cliq:u1"}, {"zoho-cliq:u1"},
      {"user:u1"}, {"team:u1"}, {"Ann@X.com"}, {"u2"}, {""} }
DmAccounts ==
    { [DefaultAccount EXCEPT !.dmPolicy = pol, !.allowFrom = al] :
        pol \in DmPolicies, al \in DmAllowLists }
DmSenders == {"u1", "U1", "u2"}
DmEmails == {"", "ann@x.com", " Ann@X.com "}
DmPayloads ==
    { [BasePayload EXCEPT !.chatId = "CT_9-B1", !.chatType = "chat", !.userId = uid,
                          !.email = em] :
        uid \in DmSenders, em \in DmEmails }

InitDm ==
    /\ now = StartTime
    /\ ticks = 0
    /\ InitToken
    /\ InitTracker
    /\ account \in DmAccounts
    /\ InitPipeline

NextDm == \E p \in DmPayloads : ProcessWebhook(p)

SpecDm == InitDm /\ [][NextDm]_vars

\* the Normalizer alone, given one payload after another
InitParse ==
    /\ now = StartTime
    /\ ticks = 0
    /\ InitToken
    /\ InitTracker
    /\ account = DefaultAccount
    /\ nWebhooks = 0
    /\ lastEvent = NoEvent
    /\ parsed \in {[payload |-> p, message |-> NoMessage, pending |-> TRUE] :
                      p \in ParsePayloads}
    /\ dispatched = {}
    /\ webhookTargets = NoTargets
    /\ instance = account.refreshCreds
    /\ response = NoResponse

NextParse == Parse

SpecParse == InitParse /\ [][NextParse]_vars

\* a tracker one entry larger than MaxConversations, used by one more
\* conversation than it holds
EvictUserNames == <<"u1", "u2", "u3", "u4">>
EvictUsers == {EvictUserNames[i] : i \in 1..(MaxConversations + 2)}
EvictResponders == {EvictUserNames[1]}

InitEvict ==
    /\ now = StartTime
    /\ ticks = 0
    /\ InitToken
    /\ trackerInstance = TRUE
    /\ conversations = <<>>
    /\ timeoutMs = DEFAULT_TIMEOUT_MS
    /\ maxConversations = MaxConversations + 1
    /\ lastOp = NoOp
    /\ held = NoHeld
    /\ account = DefaultAccount
    /\ InitPipeline

NextEvict ==
    \/ \E c \in TrackerChannels, u \in EvictUsers : RecordMention(c, u, "s1", "")
    \/ \E c \in TrackerChannels, u \in EvictResponders : RecordResponse(c, u)
    \/ \E d \in EvictDeltas : Tick(d)

SpecEvict == InitEvict /\ [][NextEvict]_vars

\* the webhook pipeline of one account: payloads arrive, the dispatcher
\* delivers replies, posting calls answer, time passes
InitPipelineSpec ==
    /\ now = StartTime
    /\ ticks = 0
    /\ InitToken
    /\ InitTracker
    /\ account \in Accounts
    /\ InitPipeline

NextPipeline ==
    \/ \E p \in Payloads : ProcessWebhook(p)
    \/ \E t \in DeliverTasks, text \in ReplyTexts : CallDeliver(t, text)
    \/ \E t \in DeliverTasks, st \in PostStatuses : PostComplete(t, st)
    \/ \E d \in PipelineDeltas : Tick(d)

SpecPipeline == InitPipelineSpec /\ [][NextPipeline]_vars

\* -------------------------------------------------------------- properties
\* what a settled run of fn gives withAutoRefresh's caller
AsOutcome(res) == IF res = Sent THEN Value(res) ELSE Error(res)

\* the step in which task t is resumed from the refresh promise it awaits
ResumeStep(t) == Resumable(t) /\ tasks'[t] # tasks[t]

\* the step in which the upstream answers exchange id
AnswerStep(id) == id \in inFlight /\ id \notin inFlight'

\* C1: across any interleaving of getToken, refresh and handleUnauthorized
\* calls, at most one upstream refresh-token exchange is in flight.
C1_OneExchangeInFlight == Cardinality(inFlight) <= 1

C1_Witness ==
    \E t, u \in Tasks :
        /\ t # u
        /\ tasks[t].pc = "awaitRefresh" /\ tasks[u].pc = "awaitRefresh"
        /\ tasks[t].initiator /\ ~tasks[u].initiator
        /\ tasks[u].op = "refresh"
        /\ tasks[t].awaiting = tasks[u].awaiting
        /\ inFlight = {tasks[t].awaiting}

\* C2: getToken calls issued inside the refresh margin while a refresh is
\* pending share one exchange, and each resolves to the token that exchange
\* produced.
PendingGetToken(t) ==
    /\ tasks[t].op = "getToken"
    /\ tasks[t].pc = "awaitRefresh"
    /\ promises[tasks[t].awaiting].state = "pending"

C2_SharedExchange ==
    /\ [](\A t, u \in Tasks :
            (t # u /\ PendingGetToken(t) /\ PendingGetToken(u))
               => /\ tasks[t].awaiting = tasks[u].awaiting
                  /\ tasks[t].started + tasks[u].started <= 1)
    /\ [][\A t \in Tasks :
            (/\ ResumeStep(t) /\ tasks[t].op = "getToken"
             /\ promises[tasks[t].awaiting].state = "fulfilled")
               => /\ tasks'[t].pc = "idle"
                  /\ tasks'[t].outcome = Value(<<promises[tasks[t].awaiting].value>>)]_vars

C2_Witness ==
    \E t, u \in Tasks :
        /\ t # u
        /\ tasks[t].op = "getToken" /\ tasks[u].op = "getToken"
        /\ tasks[t].pc = "idle" /\ Resumable(u)
        /\ tasks[t].started = 1 /\ tasks[u].started = 0
        /\ nStarted = 1
        /\ promises[1].state = "fulfilled"
        /\ tasks[t].outcome = Value(<<promises[1].value>>)

\* the step in which task t calls handleUnauthorized()
HuCallStep(t) ==
    /\ tasks[t].pc = "idle"
    /\ tasks'[t].op = "handleUnauthorized"
    /\ tasks'[t] # tasks[t]

\* C3 as stated: every handleUnauthorized() call issues an upstream exchange.
C3_EveryCallIssuesExchange ==
    \A t \in Tasks : tasks[t].op = "handleUnauthorized" => tasks[t].started = 1

\* C3 amended: a handleUnauthorized() call made while no refresh is recorded
\* in flight starts an exchange, whatever the stored expiry; one made while a
\* refresh is recorded in flight starts none and awaits that one.
C3_ForcedRefresh ==
    [][\A t \in Tasks :
          HuCallStep(t) =>
             IF refreshPromise = 0
             THEN /\ nStarted' = nStarted + 1
                  /\ inFlight' = inFlight \cup {nStarted'}
                  /\ tasks'[t].pc = "awaitRefresh"
                  /\ tasks'[t].awaiting = nStarted'
             ELSE /\ nStarted' = nStarted
                  /\ inFlight' = inFlight
                  /\ tasks'[t].pc = "awaitRefresh"
                  /\ tasks'[t].awaiting = refreshPromise]_vars

C3_Witness ==
    \E t \in Tasks :
        /\ tasks[t].op = "handleUnauthorized"
        /\ tasks[t].pc = "awaitRefresh"
        /\ tasks[t].started = 1
        /\ tasks[t].awaiting \in inFlight
        /\ expiresAt # 0 /\ ~ExpiringSoon

\* C4 as stated: after an authorization failure of the first run, one forced
\* refresh is made and fn is run once more, whose outcome is returned.
C4_AlwaysRetries ==
    \A t \in Tasks :
        (/\ tasks[t].op = "withAutoRefresh" /\ tasks[t].pc = "idle"
         /\ tasks[t].firstStatus = 401)
           => /\ tasks[t].huCalls = 1
              /\ tasks[t].fnCalls = 2
              /\ tasks[t].outcome = AsOutcome(tasks[t].lastRes)

\* C4 amended: fn runs at most twice and handleUnauthorized at most once;
\* after an authorization failure of the first run one forced refresh is
\* made; if it succeeds fn is run once more with the new token and that
\* run's outcome is returned, if it fails its error is returned and fn is
\* not run again.
C4_RetryOnce ==
    /\ [](\A t \in Tasks :
            tasks[t].op = "withAutoRefresh" =>
               /\ tasks[t].fnCalls <= 2
               /\ tasks[t].huCalls <= 1
               /\ (tasks[t].fnCalls = 2 => tasks[t].huCalls = 1)
               /\ (tasks[t].firstStatus = 401 /\ tasks[t].fnCalls = 1
                      => tasks[t].huCalls = 1)
               /\ (tasks[t].pc = "idle" /\ tasks[t].fnCalls = 2
                      => tasks[t].outcome = AsOutcome(tasks[t].lastRes))
               /\ (tasks[t].pc = "idle" /\ tasks[t].fnCalls = 1 /\ tasks[t].huCalls = 1
                      => /\ tasks[t].outcome.kind = "error"
                         /\ tasks[t].outcome.val # tasks[t].lastRes))
    /\ [][\A t \in Tasks :
            (ResumeStep(t) /\ tasks[t].op = "withAutoRefresh" /\ tasks[t].huCalls = 1)
               => IF promises[tasks[t].awaiting].state = "fulfilled"
                  THEN /\ tasks'[t].pc = "awaitFn"
                       /\ tasks'[t].fnCalls = 2
                       /\ tasks'[t].fnToken = promises[tasks[t].awaiting].value
                  ELSE /\ tasks'[t].pc = "idle"
                       /\ tasks'[t].fnCalls = 1
                       /\ tasks'[t].outcome = Error(<<promises[tasks[t].awaiting].error>>)]_vars

C4_Witness ==
    \E t \in Tasks :
        /\ tasks[t].op = "withAutoRefresh" /\ tasks[t].pc = "idle"
        /\ tasks[t].fnCalls = 2 /\ tasks[t].huCalls = 1
        /\ tasks[t].firstStatus = 401
        /\ tasks[t].outcome = Error(sendCliqChatMessage("CT_1", 401, "body"))

\* C5 as stated: in deliverCliqReply a posting call answered 401 is followed
\* by one forced refresh and one retry of the posting call.
C5_DeliverRetriesOn401 ==
    \A t \in Tasks :
        (/\ tasks[t].op = "deliver" /\ tasks[t].pc = "idle"
         /\ tasks[t].firstStatus = 401)
           => /\ tasks[t].huCalls = 1
              /\ tasks[t].fnCalls = 2

\* the delivery that failed on its first 401, with a token manager present
C5_Witness ==
    \E t \in Tasks :
        /\ account.refreshCreds
        /\ tasks[t].op = "deliver" /\ tasks[t].pc = "idle"
        /\ tasks[t].firstStatus = 401
        /\ tasks[t].fnCalls = 1 /\ tasks[t].huCalls = 0
        /\ nStarted = 0
        /\ tasks[t].outcome = Error(postBotMessage("general", 401, "body"))

\* the bot's own post
SelfEcho(m) == m.senderName = account.botName \/ m.senderId = account.botId

Max2(a, b) == IF a > b THEN a ELSE b

\* C8: a channel message with an explicit mention that is not a self-echo is
\* dispatched, and afterwards the tracker holds an entry for (channel,
\* sender) whose lastMentionAt is the time of processing.
C8_MentionDispatchedAndRecorded ==
    [][\A p \in Payloads :
          LET m == parseCliqPayload(p) IN
          (/\ ProcessWebhook(p)
           /\ m # NoMessage
           /\ m.isChannel /\ ExplicitMention(p) /\ ~SelfEcho(m))
             => LET key == makeKey(IF m.chatId # "" THEN m.chatId
                                   ELSE m.channelUniqueName, m.senderId)
                IN /\ lastEvent'.kind = "dispatched"
                   /\ lastEvent'.payload = p
                   /\ \E ctx \in dispatched' : ctx.userId = m.senderId
                   /\ MapGet(conversations', key) # NoEntry
                   /\ MapGet(conversations', key).lastMentionAt = now]_vars

C8_Witness ==
    /\ lastEvent.kind = "dispatched"
    /\ lastEvent.payload # <<>>
    /\ ExplicitMention(lastEvent.payload)
    /\ nWebhooks = 2
    /\ now > StartTime
    /\ LET m == parseCliqPayload(lastEvent.payload)
           e == MapGet(conversations, makeKey(IF m.chatId # "" THEN m.chatId
                                              ELSE m.channelUniqueName, m.senderId))
       IN /\ m.isChannel
          /\ e # NoEntry
          /\ e.lastMentionAt = now
          /\ e.lastResponseAt < now

\* C9 as stated: after a mention from S in C, a later message from S in C
\* that names the bot in no way, in a channel that requires mentions,
\* processed within the TTL of the last activity, is handled as a follow-up
\* and dispatched with the stored session key.
C9_FollowUpReusesSession ==
    [][\A p \in Payloads :
          LET m == parseCliqPayload(p)
              e == MapGet(conversations,
                          makeKey(IF m.chatId # "" THEN m.chatId
                                  ELSE m.channelUniqueName, m.senderId))
          IN
          (/\ ProcessWebhook(p)
           /\ m # NoMessage
           /\ m.isChannel /\ ~ExplicitMention(p) /\ ~SelfEcho(m)
           /\ requireMentionFor(account, m)
           /\ e # NoEntry
           /\ now - Max2(e.lastMentionAt, e.lastResponseAt) <= timeoutMs')
             => /\ lastEvent'.kind = "dispatched"
                /\ lastEvent'.isFollowUp
                /\ lastEvent'.sessionKey = e.sessionKey]_vars

\* the message without a mention that follows a mention and is handled as
\* one more mention
C9_Witness ==
    /\ lastEvent.kind = "dispatched"
    /\ lastEvent.payload # <<>>
    /\ ~ExplicitMention(lastEvent.payload)
    /\ ~lastEvent.isFollowUp
    /\ lastEvent.hint = <<>>
    /\ nWebhooks = 2
    /\ LET m == parseCliqPayload(lastEvent.payload)
           e == MapGet(conversations, makeKey(IF m.chatId # "" THEN m.chatId
                                              ELSE m.channelUniqueName, m.senderId))
       IN /\ m.isChannel
          /\ requireMentionFor(account, m)
          /\ lastOp.op = "recordMention"
          /\ e # NoEntry
          /\ e.lastResponseAt < e.lastMentionAt
          /\ e.lastMentionAt - e.lastResponseAt <= timeoutMs

\* C10: getActiveConversation deletes the entry and returns nothing when
\* now - max(lastMentionAt, lastResponseAt) is strictly greater than the
\* TTL; otherwise (elapsed equal to the TTL included) it returns the entry,
\* which stays in the table.
C10_ExpiryIsStrict ==
    [][\A c \in TrackerChannels, u \in TrackerUsers :
          LET key == makeKey(c, u)
              e == MapGet(conversations, key)
          IN (GetActiveConversation(c, u) /\ e # NoEntry)
                => IF now - Max2(e.lastMentionAt, e.lastResponseAt) > timeoutMs
                   THEN /\ lastOp'.result = NoEntry
                        /\ MapGet(conversations', key) = NoEntry
                        /\ Len(conversations') = Len(conversations) - 1
                   ELSE /\ lastOp'.result = e
                        /\ conversations' = conversations]_vars

C10_Witness ==
    /\ lastOp.op = "getActiveConversation"
    /\ lastOp.result # NoEntry
    /\ timeoutMs = 300000
    /\ now - Max2(lastOp.result.lastMentionAt, lastOp.result.lastResponseAt) = 300000
    /\ lastOp.result.lastResponseAt > lastOp.result.lastMentionAt
    /\ MapGet(conversations, lastOp.key) = lastOp.result

\* C6: a failed exchange rejects every waiter with its error, starts no
\* further exchange, and leaves the stored token and expiry as they were.
C6_FailurePropagates ==
    /\ [](\A t \in Tasks : tasks[t].started <= 1)
    /\ [][\A id \in 1..MaxExchanges :
            (AnswerStep(id) /\ lastAnswer'.answer.error # "")
               => /\ promises'[id].state = "rejected"
                  /\ promises'[id].error = lastAnswer'.answer.error
                  /\ accessToken' = accessToken
                  /\ expiresAt' = expiresAt
                  /\ inFlight' = inFlight \ {id}
                  /\ nStarted' = nStarted]_vars
    /\ [][\A t \in Tasks :
            (ResumeStep(t) /\ promises[tasks[t].awaiting].state = "rejected")
               => /\ tasks'[t].pc = "idle"
                  /\ tasks'[t].outcome = Error(<<promises[tasks[t].awaiting].error>>)
                  /\ inFlight' = inFlight
                  /\ nStarted' = nStarted]_vars

C6_Witness ==
    \E t, u \in Tasks :
        /\ t # u
        /\ tasks[t].pc = "idle" /\ tasks[t].started = 1
        /\ Resumable(u) /\ ~tasks[u].initiator
        /\ promises[tasks[u].awaiting].state = "rejected"
        /\ tasks[t].outcome = Error(<<promises[tasks[u].awaiting].error>>)
        /\ accessToken = "t0" /\ expiresAt = 0 /\ inFlight = {} /\ nStarted = 1

\* C7: when the exchange succeeds the token and expiry are stored in one
\* step and every waiter gets the new token, also when configUpdater throws.
C7_UpdaterBestEffort ==
    /\ [][\A id \in 1..MaxExchanges :
            (AnswerStep(id) /\ lastAnswer'.answer.error = "")
               => /\ promises'[id].state = "fulfilled"
                  /\ promises'[id].value = lastAnswer'.answer.accessToken
                  /\ accessToken' = lastAnswer'.answer.accessToken
                  /\ expiresAt' = now + lastAnswer'.answer.expiresIn * MsPerSec]_vars
    /\ [][\A t \in Tasks :
            (/\ ResumeStep(t) /\ promises[tasks[t].awaiting].state = "fulfilled"
             /\ tasks[t].op \in {"refresh", "handleUnauthorized", "getToken"})
               => /\ tasks'[t].pc = "idle"
                  /\ tasks'[t].outcome = Value(<<promises[tasks[t].awaiting].value>>)]_vars

C7_Witness ==
    \E t, u \in Tasks :
        /\ t # u
        /\ lastAnswer # <<>> /\ lastAnswer.updaterThrew
        /\ tasks[t].pc = "idle" /\ tasks[t].started = 1
        /\ Resumable(u) /\ tasks[u].awaiting = lastAnswer.id
        /\ promises[lastAnswer.id].state = "fulfilled"
        /\ tasks[t].outcome = Value(<<lastAnswer.answer.accessToken>>)
        /\ accessToken = lastAnswer.answer.accessToken
        /\ expiresAt # 0
        /\ cfgAccessToken # accessToken


\* the entry under key k has been idle for longer than the TTL
Stale(k) ==
    /\ MapGet(conversations, k) # NoEntry
    /\ now - lastActivity(MapGet(conversations, k)) > timeoutMs

\* C11: no tracker operation uses an entry whose idle time exceeds the TTL
\* without removing it: on such an entry getActiveConversation, recordResponse
\* and recordMention all drop the stale state, so the conversation is Active
\* again only through a new mention (an entry started afresh at the present
\* time), never through a recordResponse on the stale entry.
C11_ExpiredEntryNeverUsed ==
    [][\A c \in TrackerChannels, u \in TrackerUsers :
          Stale(makeKey(c, u)) =>
            /\ GetActiveConversation(c, u) =>
                  /\ lastOp'.result = NoEntry
                  /\ MapGet(conversations', makeKey(c, u)) = NoEntry
            /\ RecordResponse(c, u) =>
                  MapGet(conversations', makeKey(c, u)) = NoEntry
            /\ (\E sk \in TrackerSessionKeys, tp \in TrackerTopics :
                   RecordMention(c, u, sk, tp)) =>
                  /\ MapGet(conversations', makeKey(c, u)).lastMentionAt = now
                  /\ MapGet(conversations', makeKey(c, u)).lastResponseAt = now]_vars

\* a conversation idle for longer than the TTL was answered by recordResponse
\* and is then returned as active
C11_Witness ==
    /\ lastOp.op = "getActiveConversation"
    /\ lastOp.result # NoEntry
    /\ lastOp.result.lastResponseAt - lastOp.result.lastMentionAt > timeoutMs


\* C12: when recordMention for a new key takes the table over the maximum,
\* exactly one entry is evicted, one whose Math.max(lastMentionAt,
\* lastResponseAt) is the smallest of the whole table, whether or not it is
\* past the TTL; the others, and the new entry, stay: a full table of capacity
\* 2 given a third conversation keeps the two most recently active.
C12_EvictsLeastRecentlyActive ==
    [][\A c \in TrackerChannels, u \in EvictUsers :
          (/\ makeKey(c, u) \notin Keys(conversations)
           /\ Len(conversations) = maxConversations
           /\ \E sk \in TrackerSessionKeys : RecordMention(c, u, sk, ""))
          => LET evicted == Keys(conversations) \ Keys(conversations')
             IN /\ Cardinality(evicted) = 1
                /\ Len(conversations') = maxConversations
                /\ makeKey(c, u) \in Keys(conversations')
                /\ \A k \in evicted, j \in Keys(conversations) :
                      lastActivity(MapGet(conversations, k))
                         <= lastActivity(MapGet(conversations, j))
                /\ \A j \in Keys(conversations) \ evicted :
                      /\ MapGet(conversations', j) = MapGet(conversations, j)
                      /\ lastActivity(MapGet(conversations', j))
                            <= lastActivity(MapGet(conversations', makeKey(c, u)))]_vars

\* a full table of at least two entries has just taken a new conversation,
\* evicting an entry that was not the first inserted: it was the least
\* recently active
C12_Witness ==
    /\ lastOp.op = "recordMention"
    /\ Cardinality(lastOp.deleted) = 1
    /\ maxConversations >= 2
    /\ Len(conversations) = maxConversations
    /\ conversations[Len(conversations)].key = lastOp.key
    /\ conversations[Len(conversations)].lastMentionAt = now
    /\ conversations[1].lastMentionAt < conversations[1].lastResponseAt
    /\ lastOp.deleted # {lastOp.key}


C14_RecordResponseNeverCreates ==
    [][/\ \A c \in TrackerChannels, u \in TrackerUsers :
             RecordResponse(c, u)
             => /\ Len(conversations') = Len(conversations)
                /\ \A i \in 1..Len(conversations) :
                      conversations'[i] =
                         IF conversations[i].key = makeKey(c, u)
                         THEN [conversations[i] EXCEPT !.lastResponseAt = now]
                         ELSE conversations[i]
                /\ UNCHANGED <<timeoutMs, maxConversations>>
       /\ \A k \in Keys(conversations') \ Keys(conversations) :
             \E c \in TrackerChannels, u \in TrackerUsers, sk \in TrackerSessionKeys,
                tp \in TrackerTopics :
                /\ k = makeKey(c, u)
                /\ RecordMention(c, u, sk, tp)]_vars

\* recordResponse has just been called for a conversation that has no entry
\* while another conversation has one, and the table holds only the other
C14_Witness ==
    /\ lastOp.op = "recordResponse"
    /\ conversations # <<>>
    /\ lastOp.key \notin Keys(conversations)


\* C15: the value getActiveConversation returns is a copy: a later
\* recordResponse or recordMention on the same key leaves a value returned
\* earlier as it was, and an assignment to the returned value leaves the
\* stored entry as it was.
C15_ReturnedValueIsCopy ==
    [][/\ (/\ held.value # NoEntry
           /\ \/ \E c \in TrackerChannels, u \in TrackerUsers : RecordResponse(c, u)
              \/ \E c \in TrackerChannels, u \in TrackerUsers : RecordMention(c, u, "s1", ""))
          => held'.value = held.value
       /\ (\E sk \in HeldSessionKeys : MutateHeld(sk))
          => conversations' = conversations]_vars

\* a value returned by getActiveConversation and kept by the caller shows a
\* response time it did not have when it was returned, after a recordResponse
C15_Witness ==
    /\ lastOp.op = "recordResponse"
    /\ held.value # NoEntry
    /\ held.key = lastOp.key
    /\ held.value.lastResponseAt = now
    /\ held.returned.lastResponseAt < now


\* the first of: message when it is a string, message.text when it is an
\* object, the top-level text, that is not empty once trimmed ("" when none)
UsableText(p) ==
    LET ofMessage == IF p.messageType = "undefined" THEN "" ELSE p.message
    IN IF ofMessage \notin {"", " "}
       THEN (IF ofMessage = " hi " THEN "hi" ELSE ofMessage)
       ELSE IF p.text \notin {"", " "}
       THEN (IF p.text = " hi " THEN "hi" ELSE p.text)
       ELSE ""

\* C16: parseCliqPayload returns nothing for every payload with no sender id
\* or no usable text, and otherwise a message carrying that text and that
\* sender id.
C16_ParseNeedsTextAndSender ==
    (parsed.payload # <<>> /\ ~parsed.pending)
    => IF parsed.payload.userId = "" \/ UsableText(parsed.payload) = ""
       THEN parsed.message = NoMessage
       ELSE /\ parsed.message # NoMessage
            /\ parsed.message.text = UsableText(parsed.payload)
            /\ parsed.message.senderId = parsed.payload.userId

\* a payload whose message object has only blanks for text and whose
\* top-level text is padded: the message returned carries the trimmed
\* top-level text
C16_Witness ==
    /\ parsed.payload # <<>>
    /\ ~parsed.pending
    /\ parsed.payload.messageType = "object"
    /\ parsed.payload.message = " "
    /\ parsed.payload.text = " hi "
    /\ parsed.message # NoMessage
    /\ parsed.message.text = "hi"

\* C17: every message returned from a channel payload is a mention, and a
\* message is a mention whenever mentions holds a bot entry or the handler
\* name contains "mention", whatever the other fields say.
C17_ChannelMessagesAreMentions ==
    (parsed.payload # <<>> /\ ~parsed.pending /\ parsed.message # NoMessage)
    => /\ parsed.message.isChannel => parsed.message.isMention
       /\ parsed.payload.botMentioned => parsed.message.isMention
       /\ parsed.payload.handler = "onmention" => parsed.message.isMention

\* a channel message from a message handler with no bot among its mentions
\* is returned as a mention
C17_Witness ==
    /\ parsed.payload # <<>>
    /\ ~parsed.pending
    /\ parsed.message # NoMessage
    /\ parsed.payload.handler = "message"
    /\ ~parsed.payload.botMentioned
    /\ parsed.message.isChannel
    /\ parsed.message.isMention


\* the title without its leading '#', lower-cased, every run of characters
\* other than letters and digits made one '_', none left at either end
SlugOfTitle(title) ==
    IF title = "#Dev Team" THEN "dev_team"
    ELSE IF title = "# Ops " THEN "ops"
    ELSE title

\* C18: when the payload marks the chat as a channel and gives a display title
\* but no channel.unique_name, channel.name or chat.channel_unique_name, the
\* message returned has a channelUniqueName derived from the title: leading
\* '#' stripped, then slugified.
C18_TitleDerivesUniqueName ==
    (/\ parsed.payload # <<>>
     /\ ~parsed.pending
     /\ parsed.message # NoMessage
     /\ parsed.payload.chatType = "channel"
     /\ parsed.payload.chatTitle # ""
     /\ parsed.payload.chanUnique = ""
     /\ parsed.payload.chanName = ""
     /\ parsed.payload.chatChanUnique = "")
    => parsed.message.channelUniqueName = SlugOfTitle(parsed.payload.chatTitle)

\* a channel chat known only by its title "#Dev Team" is returned with the
\* channel name "Dev Team" and no channelUniqueName
C18_Witness ==
    /\ parsed.payload # <<>>
    /\ ~parsed.pending
    /\ parsed.message # NoMessage
    /\ parsed.payload.chatTitle = "#Dev Team"
    /\ parsed.message.isChannel
    /\ parsed.message.channelName = "Dev Team"
    /\ parsed.message.channelUniqueName = ""


\* C19: a message whose sender name is the bot's name or whose sender id is
\* the bot's id is ignored before any other decision, in a channel or in a
\* direct chat: nothing is handed to the agent, no outbound call is made or
\* prepared, and the tracker is left exactly as it was (no entry created,
\* refreshed or deleted, no tracker obtained).
C19_SelfEchoIgnored ==
    [][\A p \in Payloads :
          (/\ parseCliqPayload(p) # NoMessage
           /\ SelfEcho(parseCliqPayload(p))
           /\ ProcessWebhook(p))
          => /\ lastEvent'.kind = "self"
             /\ UNCHANGED <<dispatched, tasks, tokenVars, trackerVars>>]_vars

\* the bot's own direct message arrived while a conversation was being
\* tracked, and was ignored as a self-message
C19_Witness ==
    /\ lastEvent.kind = "self"
    /\ lastEvent.payload.chatType = "chat"
    /\ conversations # <<>>
    /\ dispatched # {}


\* an allow-list entry trimmed, lower-cased and without a leading provider
\* or user: prefix
EntryAsId(entry) ==
    IF entry \in {"u1", "U1", " u1 ", "Cliq:u1", "zoho-cliq:u1", "user:u1"} THEN "u1"
    ELSE entry

\* an id or an address without its case and surrounding blanks
CaseFolded(x) ==
    IF x = "U1" THEN "u1"
    ELSE IF x \in {"Ann@X.com", " Ann@X.com "} THEN "ann@x.com"
    ELSE x

\* the DM policy admits the sender of m
DmAdmitted(acct, m) ==
    LET policy == IF acct.dmPolicy = "" THEN "open" ELSE acct.dmPolicy
    IN IF policy = "disabled" THEN FALSE
       ELSE IF policy = "open" THEN TRUE
       ELSE \/ "*" \in acct.allowFrom
            \/ \E entry \in acct.allowFrom \ {""} :
                  \/ EntryAsId(entry) = CaseFolded(m.senderId)
                  \/ m.senderEmail # "" /\ CaseFolded(entry) = CaseFolded(m.senderEmail)

\* C20: direct messages: policy disabled drops every sender whatever the
\* allow-list holds, "*" included; open accepts everyone; allowlist and
\* pairing accept exactly the senders for whom the allow-list holds "*", or an
\* entry that trimmed, lower-cased and without a leading provider or user:
\* prefix is the lower-cased sender id, or an entry that is the sender's email
\* up to case. A dropped sender's message is never handed to the agent.
C20_DmAdmission ==
    [][\A p \in DmPayloads :
          (/\ parseCliqPayload(p) # NoMessage
           /\ ~SelfEcho(parseCliqPayload(p))
           /\ ProcessWebhook(p))
          => IF DmAdmitted(account, parseCliqPayload(p))
             THEN /\ lastEvent'.kind = "dispatched"
                  /\ \E ctx \in dispatched' : ctx.userId = p.userId
             ELSE /\ lastEvent'.kind = "dmDropped"
                  /\ dispatched' = dispatched
                  /\ conversations' = conversations]_vars

\* under pairing, sender U1 was admitted by the allow-list entry zoho-cliq:u1
C20_Witness ==
    /\ account.dmPolicy = "pairing"
    /\ account.allowFrom = {"zoho-cliq:u1"}
    /\ lastEvent.kind = "dispatched"
    /\ lastEvent.payload.userId = "U1"
    /\ \E ctx \in dispatched : ctx.userId = "U1"


\* the per-channel override if set, else the account default if set, else true
ResolvedRequireMention(acct, m) ==
    LET named == {c \in acct.channels :
                     m.channelUniqueName # ""
                       /\ c.name \in {m.channelUniqueName, m.chatId}
                       /\ c.requireMention \in {"true", "false"}}
    IN IF named # {} THEN \A c \in named : c.requireMention = "true"
       ELSE IF acct.requireMention \in {"true", "false"} THEN acct.requireMention = "true"
       ELSE TRUE

\* C21: for a channel message requireMention is the per-channel override if
\* set, else the account default if set, else true; and a channel message that
\* names the bot in no way, in a channel whose requireMention resolves to
\* false, is dispatched while the tracker's table stays as it was: no entry
\* created, refreshed or deleted.
C21_NoMentionNeededNoStateChange ==
    [][\A p \in PolicyPayloads :
          LET m == parseCliqPayload(p) IN
          (/\ m # NoMessage
           /\ m.isChannel /\ ~SelfEcho(m)
           /\ ProcessWebhook(p))
          => /\ requireMentionFor(account, m) = ResolvedRequireMention(account, m)
             /\ (~ExplicitMention(p) /\ ~ResolvedRequireMention(account, m))
                => /\ lastEvent'.kind = "dispatched"
                   /\ conversations' = conversations]_vars

\* a message that names the bot in no way, in a channel that requires no
\* mention, was dispatched and recorded as a mention: an entry was created
C21_Witness ==
    /\ lastEvent.kind = "dispatched"
    /\ lastEvent.payload # <<>>
    /\ ~ExplicitMention(lastEvent.payload)
    /\ ~requireMentionFor(account, parseCliqPayload(lastEvent.payload))
    /\ nWebhooks = 1
    /\ lastOp.op = "recordMention"
    /\ Len(conversations) = 1
    /\ conversations[1].lastMentionAt = now


\* C22: a channel message that names the bot in no way, in a channel whose
\* requireMention resolves to true, for which the tracker has no entry for
\* (channel, sender) or only one past its TTL, is dropped silently: nothing
\* is handed to the agent, no outbound call is prepared and no entry is
\* created.
C22_UnmentionedDroppedSilently ==
    [][\A p \in PolicyPayloads :
          LET m == parseCliqPayload(p)
              k == makeKey(IF m.chatId # "" THEN m.chatId ELSE m.channelUniqueName,
                           m.senderId)
              e == MapGet(conversations, k)
          IN
          (/\ m # NoMessage
           /\ m.isChannel /\ ~SelfEcho(m) /\ ~ExplicitMention(p)
           /\ ResolvedRequireMention(account, m)
           /\ (e = NoEntry \/ now - Max2(e.lastMentionAt, e.lastResponseAt) > timeoutMs)
           /\ ProcessWebhook(p))
          => /\ lastEvent'.kind = "skipped"
             /\ dispatched' = dispatched
             /\ MapGet(conversations', k) = NoEntry
             /\ UNCHANGED <<tasks, tokenVars>>]_vars

\* the first message of a channel, naming the bot in no way where a mention
\* is required, was handed to the agent and started a conversation
C22_Witness ==
    /\ lastEvent.kind = "dispatched"
    /\ lastEvent.payload # <<>>
    /\ ~ExplicitMention(lastEvent.payload)
    /\ requireMentionFor(account, parseCliqPayload(lastEvent.payload))
    /\ nWebhooks = 1
    /\ dispatched # {}
    /\ Len(conversations) = 1


\* the chat id carries the DM marker
DmMarked(chatId) == chatId \in {"CT_9-B1", "CT_1-B2"}

\* the endpoint table of the Outbound Delivery Router
TableEndpoint(ctx, botId) ==
    CASE ctx.target[1] = "chat:" ->
           IF ~DmMarked(ctx.target[2]) /\ botId # "" /\ ctx.channelUniqueName # ""
           THEN [fn |-> "postBotMessage", id |-> ctx.channelUniqueName,
                 replyTo |-> ctx.replyToMessageId]
           ELSE IF botId # "" /\ ctx.userId # ""
           THEN [fn |-> "sendBotDmMessage", id |-> ctx.userId, replyTo |-> ""]
           ELSE [fn |-> "sendCliqChatMessage", id |-> ctx.target[2], replyTo |-> ""]
      [] ctx.target[1] = "channel:" ->
           IF botId # ""
           THEN [fn |-> "postBotMessage", id |-> ctx.target[2],
                 replyTo |-> ctx.replyToMessageId]
           ELSE [fn |-> "sendCliqChannelMessage", id |-> ctx.target[2], replyTo |-> ""]
      [] ctx.target[1] = "user:" ->
           [fn |-> "sendCliqUserMessage", id |-> ctx.target[2], replyTo |-> ""]

\* C23: the posting call made for a reply is exactly the one the table gives
\* for its target and the identities known: chat id without DM marker, bot id
\* and channel unique name known -> post as bot to the channel with the
\* reply-to id; otherwise chat id with bot id and user id known -> bot-to-user
\* message; otherwise chat id -> chat post by chat id; channel name -> post as
\* bot with a bot id, plain channel post without; user id -> buddy message.
C23_EndpointTable ==
    \A t \in Tasks :
       (tasks[t].op = "deliver" /\ tasks[t].pc = "awaitPost")
       => tasks[t].post = TableEndpoint(tasks[t].ctx, account.botId)

\* the reply to a channel chat message is being posted as the bot to the
\* channel's unique name, in reply to the message's id
C23_Witness ==
    \E t \in Tasks :
       /\ tasks[t].op = "deliver" /\ tasks[t].pc = "awaitPost"
       /\ tasks[t].ctx.target = <<"chat:", "CT_1">>
       /\ tasks[t].post = [fn |-> "postBotMessage", id |-> "general", replyTo |-> "m7"]


\* a payload with text, a sender id and a DM-marked chat id, and no channel
\* fields
DirectPayload(p) ==
    /\ p.userId # "" /\ p.message \notin {"", " "}
    /\ DmMarked(p.chatId)
    /\ p.chatType = "" /\ p.chatChanUnique = ""
    /\ p.chanId = "" /\ p.chanUnique = "" /\ p.chanName = ""

\* C24: a payload with text, a sender id and a chat id carrying the DM
\* marker, with no channel fields, is normalized as direct, is accepted under
\* the open DM policy and gets the response target chat:<chat id>; its reply
\* goes out as a bot-to-user message when a bot id and the sender id are
\* known, and as a chat post to that chat id otherwise.
C24_DirectMessageEndToEnd ==
    /\ [][\A p \in RoutePayloads :
             (DirectPayload(p) /\ ProcessWebhook(p))
             => /\ parsed'.message # NoMessage
                /\ ~parsed'.message.isChannel
                /\ lastEvent'.kind = "dispatched"
                /\ \E ctx \in dispatched' :
                      /\ ctx.target = <<"chat:", p.chatId>>
                      /\ ctx.userId = p.userId]_vars
    /\ [](\A t \in Tasks :
             (/\ tasks[t].op = "deliver" /\ tasks[t].pc = "awaitPost"
              /\ tasks[t].ctx.target[1] = "chat:" /\ DmMarked(tasks[t].ctx.target[2]))
             => tasks[t].post.fn =
                   IF account.botId # "" /\ tasks[t].ctx.userId # ""
                   THEN "sendBotDmMessage" ELSE "sendCliqChatMessage")
    /\ [](\A t \in Tasks :
             (/\ tasks[t].op = "deliver" /\ tasks[t].pc = "awaitPost"
              /\ tasks[t].ctx.target[1] = "chat:" /\ DmMarked(tasks[t].ctx.target[2]))
             => tasks[t].post.id =
                   IF account.botId # "" /\ tasks[t].ctx.userId # ""
                   THEN tasks[t].ctx.userId ELSE tasks[t].ctx.target[2])

\* the reply to the direct message of u1 in chat CT_1-B2 is being sent as a
\* bot-to-user message to u1
C24_Witness ==
    /\ account.botId = "b1"
    /\ \E t \in Tasks :
          /\ tasks[t].op = "deliver" /\ tasks[t].pc = "awaitPost"
          /\ tasks[t].ctx.target = <<"chat:", "CT_1-B2">>
          /\ tasks[t].post.fn = "sendBotDmMessage"
          /\ tasks[t].post.id = "u1"

\* the account a request is handled for under a registry: the first target
\* registered under its path or under the default path, else the account of
\* the runtime configuration
RoutedAccount(req, map) ==
    LET exact == targetsAt(map, normalizeWebhookPath(req.path))
        targets == IF exact = <<>> THEN targetsAt(map, DefaultWebhookPath) ELSE exact
    IN IF targets = <<>> THEN directAccount ELSE targets[1].account

\* the request carries the account's secret, plain or as a bearer token, or
\* the account has none
SecretAccepted(acct, headers) ==
    \/ acct.webhookSecret = ""
    \/ providedSecret(headers) = acct.webhookSecret
    \/ providedSecret(headers) = "Bearer " \o acct.webhookSecret

\* a POST to a webhook path whose body is a JSON object within the size limit
WellFormedPost(req) ==
    /\ req.method = "POST"
    /\ pathStartsWith(req.path, DefaultWebhookPath)
    /\ req.body.size <= MaxBodyBytes
    /\ req.body.kind = "object"

C26_SecretMismatchRejected ==
    [][(/\ response.pending
        /\ WellFormedPost(response.request)
        /\ RoutedAccount(response.request, webhookTargets).webhookSecret # ""
        /\ ~SecretAccepted(RoutedAccount(response.request, webhookTargets),
                           response.request.headers)
        /\ HandlePending)
       => /\ response'.status = 401
          /\ ~response'.processed
          /\ UNCHANGED <<trackerVars, lastEvent, dispatched, tasks>>]_vars

\* with a target registered, a request with a wrong secret was answered 401
\* and left the pipeline untouched
C26_Witness ==
    /\ response.handler = "targets"
    /\ response.status = 401
    /\ response.request.headers.xCliqWebhookSecret = "wrong"
    /\ ~response.processed
    /\ lastEvent = NoEvent

\* the body is empty, is not JSON, or is JSON that is no object
UnusableBody(body) == body.kind \in {"empty", "nonjson", "array", "null"}

RegisteredAccounts(map) ==
    {map[k][i].account : <<k, i>> \in {<<k, i>> \in (DOMAIN map) \X (1..2) :
                                          i <= Len(map[k])}}

\* C28: with several accounts registered, an accepted request to
\* /webhooks/cliq/<accountId> naming a registered account is processed with
\* that account's configuration and with no other's.
C28_RoutedToNamedAccount ==
    [][(/\ response.pending
        /\ Len(response.request.path) = 3
        /\ \E a \in RegisteredAccounts(webhookTargets) :
              a.accountId = response.request.path[3]
        /\ HandlePending
        /\ response'.processed)
       => response'.account.accountId = response.request.path[3]]_vars

\* with acme and beta registered in that order, a request to
\* /webhooks/cliq/acme was processed with acme's configuration
C28_Witness ==
    /\ Cardinality(RegisteredAccounts(webhookTargets)) = 2
    /\ response.request.path = <<"webhooks", "cliq", "acme">>
    /\ response.processed
    /\ response.account.accountId = "acme"

\* what the message of a thrown Error reports: an authorization failure
\* (as withAutoRefresh recognises it), not-found, forbidden, or a generic
\* failure
ReportedAs(msg) ==
    IF IsUnauthorizedError(msg) THEN "authorization"
    ELSE IF includes(msg, "not found") THEN "not-found"
    ELSE IF includes(msg, "forbidden") THEN "forbidden"
    ELSE "generic"

ClassOfStatus(status) ==
    CASE status = 401 -> "authorization"
      [] status = 404 -> "not-found"
      [] status = 403 -> "forbidden"
      [] OTHER -> "generic"

\* C29: a posting call (chat, channel, user, bot) answered with a non-success
\* status ends in an error, never in a normal return: 401 reported as an
\* authorization failure, 404 as not-found, 403 as forbidden, any other
\* status as a generic error; deliverCliqReply ends with that same error and
\* records no response.
C29_PostFailuresClassified ==
    [][\A t \in DeliverTasks, st \in PostFailureStatuses :
          (st # 200 /\ PostComplete(t, st))
          => /\ tasks'[t].outcome.kind = "error"
             /\ tasks'[t].outcome.val = tasks'[t].lastRes
             /\ ReportedAs(tasks'[t].outcome.val) = ClassOfStatus(st)
             /\ conversations' = conversations]_vars

\* a channel post answered 403 ended deliverCliqReply with the forbidden
\* error
C29_Witness ==
    \E t \in Tasks :
       /\ tasks[t].op = "deliver" /\ tasks[t].pc = "idle"
       /\ tasks[t].post.fn = "sendCliqChannelMessage"
       /\ tasks[t].firstStatus = 403
       /\ tasks[t].outcome.kind = "error"
       /\ ReportedAs(tasks[t].outcome.val) = "forbidden"

\* the token a reply for an account would be posted with now
TokenFor(acct) ==
    IF instance THEN accessToken
    ELSE IF cfgAccessToken # "" THEN cfgAccessToken
    ELSE acct.accessToken

\* C30: with several accounts configured, a reply is posted with the access
\* token of the account that received the inbound message, and starting the
\* monitor of one account leaves the token used for every other account's
\* replies as it was.
C30_TokenOfReceivingAccount ==
    /\ [](\A t \in Tasks :
            (tasks[t].op = "deliver" /\ tasks[t].pc = "awaitPost")
            => tasks[t].fnToken = tasks[t].ctx.account.accessToken)
    /\ [][\A a \in TokenAccounts :
            StartMonitor(a)
            => \A b \in TokenAccounts \ {a} : TokenFor(b)' = TokenFor(b)]_vars

\* with acme alone started, the reply to a message acme received is being
\* posted with acme's token
C30_Witness ==
    /\ RegisteredAccounts(webhookTargets) = {a \in TokenAccounts : a.accountId = "acme"}
    /\ \E t \in Tasks :
          /\ tasks[t].op = "deliver" /\ tasks[t].pc = "awaitPost"
          /\ tasks[t].ctx.account.accountId = "acme"
          /\ tasks[t].fnToken = "tA"

\* C31: when the operation run by withAutoRefresh fails with a not-found,
\* forbidden or generic error, whatever ids or response text its message
\* holds, handleUnauthorized is not called, no exchange is issued, the
\* operation is not run again and the caller gets the original error.
C31_RetryOnlyOnAuthorizationFailure ==
    [][\A t \in Tasks, c \in DetectChatIds, s \in DetectStatuses :
          (s \notin {200, 401} /\ FnComplete(t, c, s))
          => /\ tasks'[t].pc = "idle"
             /\ tasks'[t].outcome = Error(sendCliqChatMessage(c, s, "body"))
             /\ tasks'[t].huCalls = tasks[t].huCalls
             /\ tasks'[t].fnCalls = tasks[t].fnCalls
             /\ nStarted' = nStarted]_vars

\* a post to chat CT_1 answered 404 ended withAutoRefresh with the not-found
\* error after one run and no refresh
C31_Witness ==
    \E t \in Tasks :
       /\ tasks[t].op = "withAutoRefresh" /\ tasks[t].pc = "idle"
       /\ tasks[t].firstStatus = 404
       /\ tasks[t].fnCalls = 1 /\ tasks[t].huCalls = 0
       /\ tasks[t].outcome = Error(<<"Cliq chat not found: ", "CT_1">>)
       /\ nStarted = 0

\* the lastResponseAt of every entry, by key
ResponseTimes(convs) == {<<convs[i].key, convs[i].lastResponseAt>> : i \in 1..Len(convs)}

\* C32: recordResponse is made only after the posting call of the reply has
\* completed successfully: a deliver call that is skipped for an empty text or
\* a missing access token, one that only sends its post, and a post that
\* fails all leave lastResponseAt of every entry unchanged.
C32_ResponseRecordedAfterSuccess ==
    [][\A t \in DeliverTasks :
          /\ \A text \in ReplyTexts :
                CallDeliver(t, text) => conversations' = conversations
          /\ \A st \in HttpStatuses :
                (PostComplete(t, st) /\ postResult(tasks[t].post, st) # Sent)
                => ResponseTimes(conversations') = ResponseTimes(conversations)]_vars

\* the post of the reply to a mention has failed after time passed, and the
\* mention's entry still has the lastResponseAt of the earlier time
C32_Witness ==
    /\ Len(conversations) = 1
    /\ conversations[1].lastResponseAt < now
    /\ \E t \in Tasks :
          /\ tasks[t].op = "deliver" /\ tasks[t].pc = "idle"
          /\ tasks[t].ctx.channelId = "CT_1"
          /\ tasks[t].outcome.kind = "error"

\* the deliver context of a channel message (it names the channel)
FromChannel(ctx) == ctx.channelUniqueName # ""

\* C33: the step that handles the webhook of a channel mention writes the
\* mention's entry, with the present time, together with the hand-over to the
\* agent and the 200 response, before any reply is delivered; and as long as
\* a channel message is with the agent its sender's entry is in the tracker,
\* where a second webhook of that sender finds it.
C33_MentionRecordedBeforeDispatch ==
    /\ [][\A req \in AckRequests :
             (/\ HandleRequest(req)
              /\ response'.processed
              /\ lastEvent'.kind = "dispatched"
              /\ parsed'.message.isChannel /\ parsed'.message.isMention)
             => LET m == parsed'.message
                    e == MapGet(conversations', makeKey(trackerChannelId(m), m.senderId))
                IN /\ e # NoEntry
                   /\ e.lastMentionAt = now
                   /\ response'.status = 200
                   /\ \E ctx \in dispatched' :
                         ctx.channelId = trackerChannelId(m) /\ ctx.userId = m.senderId]_vars
    /\ [](\A ctx \in dispatched :
             FromChannel(ctx)
             => MapGet(conversations, makeKey(ctx.channelId, ctx.userId)) # NoEntry)

\* a second webhook of the sender of a channel mention has been handled
\* while no reply to the first was delivered; the sender's entry is there
C33_Witness ==
    /\ nWebhooks = 2
    /\ response.status = 200
    /\ lastEvent.kind = "dispatched"
    /\ parsed.message.isChannel
    /\ \A t \in Tasks : tasks[t].op = "none"
    /\ MapGet(conversations, makeKey("CT_1", "u1")) # NoEntry


\* C34: whatever calls the tracker has served (recordMention, recordResponse,
\* getActiveConversation, setTimeoutMs, getStats), it holds at most
\* maxConversations entries.
C34_EntriesWithinCapacity == Len(conversations) <= maxConversations

\* a mention of a new conversation arrived at a full tracker, which dropped
\* another entry to stay within its capacity
C34_Witness ==
    /\ lastOp.op = "recordMention"
    /\ lastOp.deleted # {}
    /\ lastOp.key \notin lastOp.deleted
    /\ Len(conversations) = maxConversations

\* C35: with a capacity of at least one, the entry recordMention has just
\* written is present when the call returns, whichever entry the eviction
\* takes, also when several entries have the same last activity.
C35_WrittenEntrySurvivesEviction ==
    [][\A c \in TrackerChannels, u \in EvictUsers :
          (maxConversations >= 1 /\ RecordMention(c, u, "s1", ""))
          => /\ MapGet(conversations', makeKey(c, u)) # NoEntry
             /\ MapGet(conversations', makeKey(c, u)).lastMentionAt = now]_vars

\* before any time has passed a mention overflowed the tracker: all entries,
\* the evicted one too, had the same last activity, and the written entry is
\* among those kept
C35_Witness ==
    /\ ticks = 0
    /\ maxConversations >= 1
    /\ lastOp.op = "recordMention"
    /\ lastOp.deleted # {}
    /\ Len(conversations) = maxConversations
    /\ MapGet(conversations, lastOp.key) # NoEntry
    /\ \A i \in 1..Len(conversations) : lastActivity(conversations[i]) = now


\* the session key the route gives a parsed message
RoutedSessionKey(message) ==
    resolveAgentRoute(IF message.isChannel THEN "group" ELSE "dm",
                      IF message.channelUniqueName # ""
                      THEN message.channelUniqueName ELSE message.chatId).sessionKey

C37_RefreshGuardReleased ==
    /\ [](MacroOK /\ refreshPromise # 0 => refreshPromise \in inFlight)
    /\ [][\A t \in SettleTasks :
             (/\ MacroOK /\ inFlight = {}
              /\ (CallRefresh(t) \/ CallHandleUnauthorized(t)))
             => /\ nStarted' = nStarted + 1
                /\ inFlight' = {nStarted + 1}
                /\ tasks'[t].initiator]_vars
    /\ \A t \in SettleTasks :
          (tasks[t].pc = "awaitRefresh")
          ~> (tasks[t].pc = "idle" /\ tasks[t].outcome.kind \in {"value", "error"})

\* the first exchange failed and its caller was rejected; a later refresh()
\* or handleUnauthorized() has started the second exchange
C37_Witness ==
    /\ nStarted = 2
    /\ refreshPromise = 2
    /\ inFlight = {2}
    /\ \E t \in SettleTasks :
          /\ tasks[t].pc = "idle"
          /\ tasks[t].op \in {"refresh", "handleUnauthorized"}
          /\ tasks[t].outcome.kind = "error"
    /\ \E t \in SettleTasks : tasks[t].pc = "awaitRefresh" /\ tasks[t].initiator


\* the key the tracker is to be called with for a parsed message
MessageKey(message) ==
    makeKey(IF message.chatId # "" THEN message.chatId ELSE message.channelUniqueName,
            message.senderId)

\* table convs with the last response of the entry under key set to t
Refreshed(convs, key, t) ==
    [i \in 1..Len(convs) |->
        IF convs[i].key = key THEN [convs[i] EXCEPT !.lastResponseAt = t] ELSE convs[i]]

\* C38: processCliqWebhook calls the tracker under the key (chatId, or
\* channelUniqueName when chatId is empty; senderId) and hands the deliverer
\* a context of the same key; a reply delivered with success sets the last
\* response of the entry under that key, the one the mention wrote, and
\* changes no other entry.
C38_OneKeyForMentionAndReply ==
    [][/\ \A p \in Payloads :
             (ProcessWebhook(p) /\ lastEvent'.kind = "dispatched")
             => /\ parsed'.message.isChannel
                   => /\ lastOp'.op \in {"recordMention", "getActiveConversation"}
                      /\ lastOp'.key = MessageKey(parsed'.message)
                /\ \E ctx \in dispatched' :
                      makeKey(ctx.channelId, ctx.userId) = MessageKey(parsed'.message)
       /\ \A t \in DeliverTasks, st \in PostStatuses :
             (PostComplete(t, st) /\ postResult(tasks[t].post, st) = Sent)
             => conversations' =
                   Refreshed(conversations,
                             makeKey(tasks[t].ctx.channelId, tasks[t].ctx.userId), now)]_vars

\* the reply to u1's mention in the chat CT_1 of #general was delivered some
\* time after the mention: the entry under cliq:CT_1:u1 has the later
\* response, and Bob's entry under cliq:general:u2 is as his mention left it
C38_Witness ==
    /\ lastOp.op = "recordResponse"
    /\ lastOp.key = makeKey("CT_1", "u1")
    /\ Len(conversations) = 2
    /\ LET e == MapGet(conversations, makeKey("CT_1", "u1"))
           o == MapGet(conversations, makeKey("general", "u2"))
       IN /\ e # NoEntry /\ e.lastResponseAt = now /\ e.lastMentionAt < now
          /\ o # NoEntry /\ o.lastResponseAt = o.lastMentionAt


\* C39: a getToken() called while an exchange is in flight and the stored
\* expiry is unknown or outside the margin is not suspended: it returns the
\* stored access token at once, and the exchange stays in flight.
C39_GetTokenDoesNotWaitForRefresh ==
    [][\A t \in Tasks :
          (inFlight # {} /\ ~ExpiringSoon /\ CallGetToken(t))
          => /\ tasks'[t].pc = "idle"
             /\ tasks'[t].awaiting = 0
             /\ tasks'[t].outcome = Value(<<accessToken>>)
             /\ inFlight' = inFlight
             /\ nStarted' = nStarted]_vars

\* while the exchange of a handleUnauthorized() call is in flight, a
\* getToken() call has returned the token that exchange is replacing
C39_Witness ==
    /\ inFlight # {}
    /\ ~ExpiringSoon
    /\ \E t, u \in Tasks :
          /\ tasks[u].op = "handleUnauthorized" /\ tasks[u].pc = "awaitRefresh"
          /\ tasks[u].initiator
          /\ tasks[t].op = "getToken" /\ tasks[t].pc = "idle"
          /\ tasks[t].outcome = Value(<<accessToken>>)


\* the stored expiry is set and the clock is inside the refresh margin
InsideMargin == expiresAt # 0 /\ now > expiresAt - RefreshMarginMs

\* the step in which a getToken() call of task t starts an exchange
StartsExchange(t) ==
    /\ nStarted' = nStarted + 1
    /\ inFlight' = inFlight \cup {nStarted + 1}
    /\ tasks'[t].initiator

\* C40 (as stated): while the stored expiry is unset getToken() starts no
\* exchange and returns the token given at construction; once it is set,
\* getToken() starts an exchange exactly when the clock is inside the margin.
C40_ConstructionTokenUntilExpirySet ==
    [][\A t \in ExpiryTasks :
          CallGetToken(t)
          => /\ expiresAt = 0
                => /\ ~StartsExchange(t)
                   /\ tasks'[t].outcome = Value(<<"t0">>)
             /\ expiresAt # 0 => (StartsExchange(t) <=> InsideMargin)]_vars

\* C40 (amended): while the stored expiry is unset getToken() starts no
\* exchange and returns the stored token, which is the one given at
\* construction or the one updateToken stored since; a successful refresh
\* with lifetime L sets the expiry to its time plus L; once the expiry is
\* set, getToken() outside the margin returns the stored token, and inside
\* the margin starts an exchange when none is recorded and otherwise waits
\* for the recorded one.
C40_StoredTokenUntilExpirySet ==
    /\ [](expiresAt = 0 => accessToken \in {"t0", "tU"})
    /\ [][\A t \in ExpiryTasks :
             CallGetToken(t)
             => /\ ~InsideMargin
                   => /\ ~StartsExchange(t)
                      /\ nStarted' = nStarted
                      /\ tasks'[t].pc = "idle"
                      /\ tasks'[t].outcome = Value(<<accessToken>>)
                /\ InsideMargin /\ refreshPromise = 0 => StartsExchange(t)
                /\ InsideMargin /\ refreshPromise # 0
                   => /\ nStarted' = nStarted
                      /\ tasks'[t].pc = "awaitRefresh"
                      /\ tasks'[t].awaiting = refreshPromise]_vars
    /\ [][\A id \in 1..MaxExchanges, resp \in ExpiryResponses :
             (ExchangeComplete(id, resp, FALSE) /\ refreshAccessToken(resp).error = "")
             => expiresAt' = now + refreshAccessToken(resp).expiresIn * MsPerSec]_vars

\* updateToken replaced the construction token and left the expiry unset;
\* getToken() has since returned the replacement
C40_Witness ==
    /\ expiresAt = 0
    /\ accessToken = "tU"
    /\ nStarted = 0
    /\ \E t \in ExpiryTasks :
          /\ tasks[t].op = "getToken" /\ tasks[t].pc = "idle"
          /\ tasks[t].outcome = Value(<<"tU">>)

=============================================================================
